---- MODULE Spec2Model ----
(***************************************************************************)
(* Model of the universal-oauth-sdk node client (packages/sdk-node):       *)
(*   - OAuthClient.refreshIfNeeded / request      (token lifecycle)        *)
(*   - OAuthClient.authorize / waitForCallback    (authorization code)     *)
(*   - SQLiteStore / EncryptedSQLiteStore         (token stores)           *)
(*   - authorizeDevice / pollForToken             (device flow)            *)
(* The module holds one specification for each part of the client.         *)
(* Each one moves its own variables and leaves the others at their         *)
(* initial value.                                                          *)
(***************************************************************************)
EXTENDS Integers, Sequences, FiniteSets, TLC

(***************************************************************************)
(* Optional values.  A TypeScript optional field `x?: T` is <<>> when      *)
(* absent (undefined / null) and <<v>> when present.                       *)
(***************************************************************************)
Absent == <<>>
Some(v) == <<v>>
Null == [null |-> TRUE]

\* JavaScript truthiness of an optional string: undefined and "" are falsy.
TruthyStr(o) == o # Absent /\ o[1] # ""
\* JavaScript truthiness of an optional number: undefined and 0 are falsy.
TruthyNum(o) == o # Absent /\ o[1] # 0
\* a ?? b
Coalesce(a, b) == IF a # Absent THEN a ELSE b

(***************************************************************************)
(* Bounds of the model.                                                    *)
(***************************************************************************)
MaxNow == 1          \* the clock runs over 0..MaxNow seconds
MaxCalls == 1        \* public calls one caller makes
MaxOther == 1        \* writes and deletes by other holders of the store

\* refreshIfNeeded: a record is fresh when expiresAt - now > 60
SkewSeconds == 60

Keys == {"google", "work"}
Procs == {1, 2}

(***************************************************************************)
(* TokenSet (types.ts).  All six fields are kept; an absent field is       *)
(* Absent.                                                                 *)
(***************************************************************************)
TokenSet(at, rt, idt, exp, sc, tt) ==
    [accessToken |-> at, refreshToken |-> rt, idToken |-> idt,
     expiresAt |-> exp, scope |-> sc, tokenType |-> tt]

\* expiry instants used by the model: 0 (falsy), on the skew boundary,
\* one second above it, and beyond the reach of the clock
ExpiryValues == {0, SkewSeconds, SkewSeconds + 1, SkewSeconds + MaxNow + 1}

\* records found in the store before the client runs, or written by others
StoredRecords ==
    { TokenSet(Some("at0"), rt, Absent, exp, Absent, Absent) :
        rt \in {Absent, Some(""), Some("rt0")},
        exp \in {Absent} \cup { Some(e) : e \in ExpiryValues } }

\* token endpoint answers to a refresh_token grant (openid-client TokenSet)
RefreshResponses ==
    [access_token : {Some("at1")},
     refresh_token : {Absent, Some("rt1")},
     id_token : {Absent},
     expires_at : {Absent, Some(SkewSeconds + MaxNow + 1)},
     scope : {Absent},
     token_type : {Some("bearer")}]

\* records another holder of the store writes while the client runs
OtherRecords ==
    { TokenSet(Some("at9"), Some("rt9"), Absent, Some(SkewSeconds), Absent, Absent),
      TokenSet(Some("at8"), Absent, Absent, Some(SkewSeconds + MaxNow + 1), Absent,
               Some("Bearer")),
      TokenSet(Some("at7"), Absent, Absent, Some(SkewSeconds + MaxNow + 1), Absent,
               Some("")) }

Urls == {"https://api.example.com/user", "not-a-valid-url"}
\* new URL(url) throws for a string that is no absolute URL
ValidUrl(u) == u = "https://api.example.com/user"

HttpStatuses == {200, 401, 500}

VARIABLES
    now,        \* Math.floor(Date.now() / 1000)
    store,      \* TokenStore contents: key -> TokenSet or Null
    pc,         \* per caller: where its running call is suspended
    op,         \* per caller: the public method running, or the last one run
    phase,      \* per caller: 1 = before the first fetch, 2 = after a 401
    key,        \* per caller: the key argument
    t,          \* per caller: record read by refreshIfNeeded (line 342)
    result,     \* per caller: outcome of the last finished call
    grants,     \* per caller: refresh grants sent in this call (token, phase)
    writes,     \* per caller: store.set calls of this call (key, record written,
                \* the refresh response, the record read it was built from
                \* and the time of the call)
    fetches,    \* per caller: HTTP calls to the target url, this call
    tRead,      \* per caller: the record as it was when line 342 read it
    reqUrl,     \* per caller: the url argument of request()
    reads,      \* per caller: store.get calls of this call
    calls,      \* per caller: public calls started so far
    others      \* writes and deletes done by other holders of the store

lifeVars == <<now, store, pc, op, phase, key, t, result, grants, writes, fetches, tRead,
              reqUrl, reads, calls, others>>
\* the lifecycle variables other than the store itself
lifeLocal == <<now, pc, op, phase, key, t, result, grants, writes, fetches, tRead,
               reqUrl, reads, calls, others>>

VARIABLES
    apc,        \* per authorize(): "idle", "binding", "awaiting", "exchanging",
                \* "complete" or "failed"
    issued,     \* per authorize(): the state generated at line 240
    akey,       \* per authorize(): the key argument, Absent when none is given
    portOwner,  \* the authorize() whose server listens on the redirect port, 0 if none
    timerArmed, \* per authorize(): the timeout of line 329 is pending
    replies,    \* per authorize(): HTTP status codes its handler answered
    settledBy,  \* per authorize(): the request that settled the wait, if any
    exchanges,  \* per authorize(): token exchanges attempted (line 267)
    awrites,    \* per authorize(): store.set calls (line 276)
    aresult     \* per authorize(): outcome of the call

authVars == <<apc, issued, akey, portOwner, timerArmed, replies, settledBy, exchanges,
              awrites, aresult>>

VARIABLES
    db,         \* SQLite table tokens: key -> JSON text of the row, or NoRow
    encKey,     \* this.encryptionKey of the encrypted store, NoStore if none
    lastPut,    \* per key: the record and the writer (an encryption key, or
                \* Plain) of the write that made the present row, if the row
                \* is as that write left it
    last        \* the last step taken on the database

encVars == <<db, encKey, lastPut, last>>

VARIABLES
    upc,        \* authorize(): "idle", "created", "waiting" or "exchanging"
    uman,       \* this.manifest
    ugen,       \* codeVerifier, state and nonce of lines 238-241
    uurl,       \* query of the authorization URL, a sequence of name/value pairs
    uparams,    \* params handed to client.callback (lines 262-266)
    uchecks     \* checks handed to client.callback (line 267)

urlVars == <<upc, uman, ugen, uurl, uparams, uchecks>>

VARIABLES
    dpc,        \* authorizeDevice(): "idle", "requesting", "sleeping", "granting",
                \* "slowing", "done" or "failed"
    dcfg,       \* the options and the key argument
    dauth,      \* the device authorization response, once received
    dinterval,  \* interval of pollForToken (line 147)
    dstart,     \* startTime of pollForToken (line 146)
    dclock,     \* Date.now()
    dsince,     \* time slept since the last poll, or since the loop began
    dwaits,     \* for each poll sent, the time slept before it
    dpolls,     \* the answers of the token endpoint, in order
    dnet,       \* device authorization requests sent
    dshown,     \* calls of onUserCode
    dwrites,    \* store.set calls (line 80)
    dstore,     \* the store handed to authorizeDevice
    dresult     \* outcome of authorizeDevice()

devVars == <<dpc, dcfg, dauth, dinterval, dstart, dclock, dsince, dwaits, dpolls, dnet,
             dshown, dwrites, dstore, dresult>>

\* construction and initialisation of a client (part_014:177-235, 403-419)
VARIABLES
    cpc,        \* none, rejected, constructed, init_failed, ready
    copts,      \* the options the constructor was given
    creg,       \* the registry the constructor was given
    cman,       \* this.manifest
    cissuer,    \* the metadata of this.client.issuer
    ckey,       \* the key authorizeDevice hands to the device flow
    cnet,       \* network calls made
    caccess,    \* calls of the TokenStore made
    cuses,      \* method calls made on the client object
    cresult,    \* what the constructor or init() threw
    cdevice     \* where authorizeDevice() got to

cfgVars == <<cpc, copts, creg, cman, cissuer, ckey, cnet, caccess, cuses, cresult, cdevice>>

\* the two token stores side by side (part_012, part_013)
VARIABLES
    kmem,       \* MemoryStore: this.mem
    ksql,       \* SQLiteStore: the rows of table tokens
    kmap,       \* the map the calls made so far describe
    klast       \* the last call and what each store answered

kvVars == <<kmem, ksql, kmap, klast>>

\* refreshIfNeeded and the token endpoint (part_014:341-358)
VARIABLES
    vpc,        \* per caller: idle, sent, issued, done or returned
    vt,         \* per caller: the record read at line 342
    vresp,      \* per caller: the answer the token endpoint issued for it
    vissued,    \* answers the token endpoint has issued
    vwrites,    \* the callers in the order of their store.set calls
    vstore      \* the record under the key

svVars == <<vpc, vt, vresp, vissued, vwrites, vstore>>

\* the calls on a client object that use this.client (part_014:237-278,
\* 341-358, 403-419)
VARIABLES
    npc,        \* authorize(): none, waiting or done
    nbrowser,   \* open.exec calls (line 258)
    nlisten,    \* server.listen calls (line 328)
    nwrites,    \* store.set calls
    nresult,    \* what authorize() produced
    nrefresh    \* what a request() that needs a refresh produced

useVars == <<npc, nbrowser, nlisten, nwrites, nresult, nrefresh>>

vars == <<lifeVars, authVars, encVars, urlVars, devVars, cfgVars, kvVars, svVars, useVars>>

(***************************************************************************)
(* Outcomes of a call.                                                     *)
(***************************************************************************)
NoResult == [kind |-> "none"]
Return(v) == [kind |-> "return", value |-> v]
Throw(e) == [kind |-> "throw", error |-> e]

ErrInvalidUrl == <<"Invalid URL">>                        \* line 365
ErrNoToken == <<"No token available">>                    \* line 370
ErrRefreshFailed == <<"Token refresh failed">>            \* line 387
ErrGrant == <<"refresh grant rejected">>                  \* client.refresh throws
ErrNetwork == <<"fetch failed">>                          \* fetch rejects
\* catch (err) { throw new Error(`Request failed: ${err.message}`) }
RequestFailed(e) == <<"Request failed">> \o e

\* the lifecycle variables other than the store, before any call
LifeIdle ==
    /\ now = 0
    /\ pc = [p \in Procs |-> "idle"]
    /\ op = [p \in Procs |-> "none"]
    /\ phase = [p \in Procs |-> 1]
    /\ key = [p \in Procs |-> "google"]
    /\ t = [p \in Procs |-> Null]
    /\ tRead = [p \in Procs |-> Null]
    /\ reqUrl = [p \in Procs |-> "https://api.example.com/user"]
    /\ reads = [p \in Procs |-> 0]
    /\ result = [p \in Procs |-> NoResult]
    /\ grants = [p \in Procs |-> <<>>]
    /\ writes = [p \in Procs |-> <<>>]
    /\ fetches = [p \in Procs |-> <<>>]
    /\ calls = [p \in Procs |-> 0]
    /\ others = 0

InitLife ==
    /\ store \in [Keys -> StoredRecords \cup {Null}]
    /\ store["work"] = Null
    /\ LifeIdle

(***************************************************************************)
(* refreshIfNeeded (lines 341-358) and request (lines 360-401).            *)
(***************************************************************************)
\* IsFresh with the skew buffer compared one second too high
IsFreshSkewOff(rec, clock) ==
    TruthyNum(rec.expiresAt) /\ rec.expiresAt[1] - clock > SkewSeconds + 1

\* line 345: t.expiresAt && t.expiresAt - now > 60
IsFresh(rec, clock) ==
    TruthyNum(rec.expiresAt) /\ rec.expiresAt[1] - clock > SkewSeconds

\* line 346: !t.refreshToken
CannotRefresh(rec) == ~TruthyStr(rec.refreshToken)

\* NextRecord that takes the refresh token from the response alone
NextRecordNoReuse(rec, refreshed) ==
    [accessToken |-> refreshed.access_token,
     refreshToken |-> refreshed.refresh_token,
     idToken |-> Coalesce(refreshed.id_token, rec.idToken),
     expiresAt |-> Coalesce(refreshed.expires_at, rec.expiresAt),
     scope |-> Coalesce(refreshed.scope, rec.scope),
     tokenType |-> Coalesce(refreshed.token_type, rec.tokenType)]

\* lines 348-355: the record built from the refresh response
NextRecord(rec, refreshed) ==
    TokenSet(refreshed.access_token,
             Coalesce(refreshed.refresh_token, rec.refreshToken),
             Coalesce(refreshed.id_token, rec.idToken),
             Coalesce(refreshed.expires_at, rec.expiresAt),
             Coalesce(refreshed.scope, rec.scope),
             Coalesce(refreshed.token_type, rec.tokenType))

\* AuthHeader with ?? in the place of ||: an empty tokenType is kept
AuthHeaderNullish(rec) ==
    <<IF rec.tokenType # Absent THEN rec.tokenType[1] ELSE "Bearer",
      rec.accessToken>>

\* lines 374 and 390: `${t.tokenType || 'Bearer'} ${t.accessToken}`
AuthHeader(rec) ==
    <<IF TruthyStr(rec.tokenType) THEN rec.tokenType[1] ELSE "Bearer",
      rec.accessToken>>

NewFetch(rec) == [auth |-> AuthHeader(rec), status |-> Absent, failed |-> FALSE]

\* the call of caller p ends with outcome r
Finish(p, r) ==
    /\ result' = [result EXCEPT ![p] = r]
    /\ pc' = [pc EXCEPT ![p] = "idle"]
    /\ UNCHANGED op

\* EnterRefreshIfNeeded that keeps the record of an earlier read
EnterRefreshIfNeededCached(p, k) ==
    /\ t' = [t EXCEPT ![p] = IF t[p] # Null THEN t[p] ELSE store[k]]
    /\ tRead' = [tRead EXCEPT ![p] = IF t[p] # Null THEN t[p] ELSE store[k]]
    /\ reads' = [reads EXCEPT ![p] = IF pc[p] = "idle" THEN 1 ELSE @ + 1]
    /\ pc' = [pc EXCEPT ![p] = "rin_decide"]

\* line 342: const t = await this.store.get(key)
EnterRefreshIfNeeded(p, k) ==
    /\ t' = [t EXCEPT ![p] = store[k]]
    /\ tRead' = [tRead EXCEPT ![p] = store[k]]
    /\ reads' = [reads EXCEPT ![p] = IF pc[p] = "idle" THEN 1 ELSE @ + 1]
    /\ pc' = [pc EXCEPT ![p] = "rin_decide"]

\* refreshIfNeeded returns v to its caller: the public caller, or request()
\* at line 368 (phase 1) or line 383 (phase 2)
RinReturn(p, v) ==
    IF op[p] = "refreshIfNeeded"
    THEN /\ Finish(p, Return(v))
         /\ UNCHANGED <<fetches, phase>>
    ELSE IF phase[p] = 1
    THEN IF v = Null
         THEN /\ Finish(p, Throw(ErrNoToken))
              /\ UNCHANGED <<fetches, phase>>
         ELSE /\ fetches' = [fetches EXCEPT ![p] = Append(@, NewFetch(v))]
              /\ pc' = [pc EXCEPT ![p] = "fetch1"]
              /\ UNCHANGED <<result, op, phase>>
    ELSE /\ pc' = [pc EXCEPT ![p] = "get_token"]
         /\ UNCHANGED <<result, op, fetches, phase>>

\* a call starts: the bookkeeping of the previous call is dropped
StartCall(p, name, k) ==
    /\ pc[p] = "idle"
    /\ calls[p] < MaxCalls
    /\ calls' = [calls EXCEPT ![p] = @ + 1]
    /\ op' = [op EXCEPT ![p] = name]
    /\ key' = [key EXCEPT ![p] = k]
    /\ phase' = [phase EXCEPT ![p] = 1]
    /\ grants' = [grants EXCEPT ![p] = <<>>]
    /\ writes' = [writes EXCEPT ![p] = <<>>]
    /\ fetches' = [fetches EXCEPT ![p] = <<>>]
    /\ result' = [result EXCEPT ![p] = NoResult]

\* client.refreshIfNeeded(k)
CallRefreshIfNeeded(p, k) ==
    /\ StartCall(p, "refreshIfNeeded", k)
    /\ EnterRefreshIfNeeded(p, k)
    /\ UNCHANGED <<now, store, reqUrl, others>>

\* CallRequest without the validation of the url (lines 362-366)
CallRequestNoValidation(p, url, k) ==
    /\ pc[p] = "idle"
    /\ calls[p] < MaxCalls
    /\ calls' = [calls EXCEPT ![p] = @ + 1]
    /\ key' = [key EXCEPT ![p] = k]
    /\ reqUrl' = [reqUrl EXCEPT ![p] = url]
    /\ phase' = [phase EXCEPT ![p] = 1]
    /\ grants' = [grants EXCEPT ![p] = <<>>]
    /\ writes' = [writes EXCEPT ![p] = <<>>]
    /\ fetches' = [fetches EXCEPT ![p] = <<>>]
    /\ op' = [op EXCEPT ![p] = "request"]
    /\ result' = [result EXCEPT ![p] = NoResult]
    /\ EnterRefreshIfNeeded(p, k)
    /\ UNCHANGED <<now, store, others>>

\* client.request(url, init, k): lines 362-368
CallRequest(p, url, k) ==
    /\ pc[p] = "idle"
    /\ calls[p] < MaxCalls
    /\ calls' = [calls EXCEPT ![p] = @ + 1]
    /\ key' = [key EXCEPT ![p] = k]
    /\ reqUrl' = [reqUrl EXCEPT ![p] = url]
    /\ phase' = [phase EXCEPT ![p] = 1]
    /\ grants' = [grants EXCEPT ![p] = <<>>]
    /\ writes' = [writes EXCEPT ![p] = <<>>]
    /\ fetches' = [fetches EXCEPT ![p] = <<>>]
    /\ IF ValidUrl(url)
       THEN /\ op' = [op EXCEPT ![p] = "request"]
            /\ result' = [result EXCEPT ![p] = NoResult]
            /\ EnterRefreshIfNeeded(p, k)
       ELSE /\ op' = [op EXCEPT ![p] = "request"]
            /\ result' = [result EXCEPT ![p] = Throw(ErrInvalidUrl)]
            /\ t' = [t EXCEPT ![p] = Null]
            /\ tRead' = [tRead EXCEPT ![p] = Null]
            /\ reads' = [reads EXCEPT ![p] = 0]
            /\ UNCHANGED pc
    /\ UNCHANGED <<now, store, others>>

\* RinDecide that sends no grant while another caller has one in flight for
\* the same key
RinDecideSingleFlight(p) ==
    /\ pc[p] = "rin_decide"
    /\ IF t[p] = Null
       THEN RinReturn(p, Null) /\ UNCHANGED grants
       ELSE IF IsFresh(t[p], now)
       THEN RinReturn(p, t[p]) /\ UNCHANGED grants
       ELSE IF CannotRefresh(t[p])
       THEN RinReturn(p, t[p]) /\ UNCHANGED grants
       ELSE IF \E q \in Procs \ {p} : pc[q] = "rin_grant" /\ key[q] = key[p]
       THEN RinReturn(p, t[p]) /\ UNCHANGED grants
       ELSE /\ grants' = [grants EXCEPT ![p] =
                          Append(@, [rt |-> t[p].refreshToken[1], phase |-> phase[p]])]
            /\ pc' = [pc EXCEPT ![p] = "rin_grant"]
            /\ UNCHANGED <<result, op, fetches, phase>>
    /\ UNCHANGED <<now, store, key, t, tRead, reqUrl, reads, writes, calls, others>>

\* lines 343-347: the decisions taken on the record that was read
RinDecide(p) ==
    /\ pc[p] = "rin_decide"
    /\ IF t[p] = Null
       THEN RinReturn(p, Null) /\ UNCHANGED grants
       ELSE IF IsFresh(t[p], now)
       THEN RinReturn(p, t[p]) /\ UNCHANGED grants
       ELSE IF CannotRefresh(t[p])
       THEN RinReturn(p, t[p]) /\ UNCHANGED grants
       ELSE /\ grants' = [grants EXCEPT ![p] =
                          Append(@, [rt |-> t[p].refreshToken[1], phase |-> phase[p]])]
            /\ pc' = [pc EXCEPT ![p] = "rin_grant"]
            /\ UNCHANGED <<result, op, fetches, phase>>
    /\ UNCHANGED <<now, store, key, t, tRead, reqUrl, reads, writes, calls, others>>

\* lines 347-357: the grant succeeds; next is built, stored and returned
RinGrantOk(p, refreshed) ==
    /\ pc[p] = "rin_grant"
    /\ LET next == NextRecord(t[p], refreshed) IN
        /\ store' = [store EXCEPT ![key[p]] = next]
        /\ writes' = [writes EXCEPT ![p] =
                          Append(@, [key |-> key[p], rec |-> next, resp |-> refreshed,
                                     read |-> tRead[p], at |-> now])]
        /\ RinReturn(p, next)
    /\ UNCHANGED <<now, key, t, tRead, reqUrl, reads, grants, calls, others>>

\* line 347 throws: outside the try block in phase 1 and for the public
\* caller, inside it (lines 377-400) in phase 2
RinGrantFail(p) ==
    /\ pc[p] = "rin_grant"
    /\ Finish(p, Throw(IF op[p] = "request" /\ phase[p] = 2
                       THEN RequestFailed(ErrGrant) ELSE ErrGrant))
    /\ UNCHANGED <<now, store, key, t, tRead, reqUrl, reads, grants, writes, fetches, phase, calls, others>>

SetLastStatus(p, s) ==
    fetches' = [fetches EXCEPT ![p] = [@ EXCEPT ![Len(fetches[p])].status = Some(s)]]

\* lines 378-394: the first fetch resolves
Fetch1Return(p, status) ==
    /\ pc[p] = "fetch1"
    /\ SetLastStatus(p, status)
    /\ IF status = 401
       THEN /\ phase' = [phase EXCEPT ![p] = 2]
            /\ EnterRefreshIfNeeded(p, key[p])
            /\ UNCHANGED <<result, op, reqUrl>>
       ELSE /\ Finish(p, Return([status |-> status]))
            /\ UNCHANGED <<phase, t, tRead, reqUrl, reads>>
    /\ UNCHANGED <<now, store, key, grants, writes, calls, others>>

\* line 378 rejects: caught at line 395
Fetch1Fail(p) ==
    /\ pc[p] = "fetch1"
    /\ fetches' = [fetches EXCEPT ![p] = [@ EXCEPT ![Len(fetches[p])].failed = TRUE]]
    /\ Finish(p, Throw(RequestFailed(ErrNetwork)))
    /\ UNCHANGED <<now, store, key, t, tRead, reqUrl, reads, grants, writes, phase, calls, others>>

\* lines 384-391: getToken re-reads the store, then the retry is sent
ReqGetToken(p) ==
    /\ pc[p] = "get_token"
    /\ IF store[key[p]] = Null
       THEN /\ Finish(p, Throw(RequestFailed(ErrRefreshFailed)))
            /\ UNCHANGED fetches
       ELSE /\ fetches' = [fetches EXCEPT ![p] = Append(@, NewFetch(store[key[p]]))]
            /\ pc' = [pc EXCEPT ![p] = "fetch2"]
            /\ UNCHANGED <<result, op>>
    /\ reads' = [reads EXCEPT ![p] = @ + 1]
    /\ UNCHANGED <<now, store, key, t, tRead, reqUrl, grants, writes, phase, calls, others>>

\* Fetch2Return that starts another refresh-and-retry cycle on a 401
Fetch2ReturnRetrying(p, status) ==
    /\ pc[p] = "fetch2"
    /\ SetLastStatus(p, status)
    /\ IF status = 401
       THEN /\ EnterRefreshIfNeeded(p, key[p])
            /\ UNCHANGED <<result, op, reqUrl>>
       ELSE /\ Finish(p, Return([status |-> status]))
            /\ UNCHANGED <<t, tRead, reqUrl, reads>>
    /\ UNCHANGED <<now, store, key, grants, writes, phase, calls, others>>

\* line 391: the retry's response is returned whatever its status
Fetch2Return(p, status) ==
    /\ pc[p] = "fetch2"
    /\ SetLastStatus(p, status)
    /\ Finish(p, Return([status |-> status]))
    /\ UNCHANGED <<now, store, key, t, tRead, reqUrl, reads, grants, writes, phase, calls, others>>

\* line 391: `return fetch(...)` is not awaited, so the rejection is not
\* caught at line 395
Fetch2Fail(p) ==
    /\ pc[p] = "fetch2"
    /\ fetches' = [fetches EXCEPT ![p] = [@ EXCEPT ![Len(fetches[p])].failed = TRUE]]
    /\ Finish(p, Throw(ErrNetwork))
    /\ UNCHANGED <<now, store, key, t, tRead, reqUrl, reads, grants, writes, phase, calls, others>>

(***************************************************************************)
(* Environment of the lifecycle: the clock, and other users of the store.  *)
(***************************************************************************)
Tick ==
    /\ now < MaxNow
    /\ now' = now + 1
    /\ UNCHANGED <<store, pc, op, phase, key, t, tRead, reqUrl, reads, result, grants, writes, fetches, calls, others>>

\* MemoryStore.set / SQLiteStore.set called by another holder of the store
OtherSet(k, rec) ==
    /\ others < MaxOther
    /\ others' = others + 1
    /\ store' = [store EXCEPT ![k] = rec]
    /\ UNCHANGED <<now, pc, op, phase, key, t, tRead, reqUrl, reads, result, grants, writes, fetches, calls>>

\* MemoryStore.delete / SQLiteStore.delete called by another holder
OtherDelete(k) ==
    /\ others < MaxOther
    /\ others' = others + 1
    /\ store' = [store EXCEPT ![k] = Null]
    /\ UNCHANGED <<now, pc, op, phase, key, t, tRead, reqUrl, reads, result, grants, writes, fetches, calls>>

\* one client's calls, one at a time, beside the environment
\* a step of the lifecycle leaves the authorization flow and the database alone
LifeFrame == UNCHANGED <<authVars, encVars, urlVars, devVars, cfgVars, kvVars, svVars, useVars>>

NextLife ==
    \/ \E k \in Keys : CallRefreshIfNeeded(1, k) /\ LifeFrame
    \/ \E u \in Urls, k \in Keys : CallRequest(1, u, k) /\ LifeFrame
    \/ RinDecide(1) /\ LifeFrame
    \/ \E r \in RefreshResponses : RinGrantOk(1, r) /\ LifeFrame
    \/ RinGrantFail(1) /\ LifeFrame
    \/ \E s \in HttpStatuses : Fetch1Return(1, s) /\ LifeFrame
    \/ Fetch1Fail(1) /\ LifeFrame
    \/ ReqGetToken(1) /\ LifeFrame
    \/ \E s \in HttpStatuses : Fetch2Return(1, s) /\ LifeFrame
    \/ Fetch2Fail(1) /\ LifeFrame
    \/ Tick /\ LifeFrame
    \/ \E k \in Keys, rec \in OtherRecords : OtherSet(k, rec) /\ LifeFrame
    \/ \E k \in Keys : OtherDelete(k) /\ LifeFrame

\* several callers of refreshIfNeeded on one store, their steps interleaved
\* at the awaits of lines 342, 347 and 356
NextRace ==
    \/ \E p \in Procs, k \in Keys : CallRefreshIfNeeded(p, k) /\ LifeFrame
    \/ \E p \in Procs : RinDecide(p) /\ LifeFrame
    \/ \E p \in Procs, r \in RefreshResponses : RinGrantOk(p, r) /\ LifeFrame
    \/ \E p \in Procs : RinGrantFail(p) /\ LifeFrame
    \/ Tick /\ LifeFrame

(***************************************************************************)
(* authorize (lines 237-278) and waitForCallback (lines 280-335).          *)
(***************************************************************************)
MaxRequests == 2     \* HTTP requests one callback listener answers

Invs == {1, 2}
\* values generators.state() can return
StateVals == {"s1", "s2"}
\* pathname of the redirect URI (line 282), and another path
RedirectPath == "/callback"
OtherPath == "/favicon.ico"

\* inbound HTTP requests, by the query parameters the handler reads
CallbackRequest(path, err, desc, code, st) ==
    [path |-> path, error |-> err, error_description |-> desc, code |-> code,
     state |-> st]

Requests ==
    {CallbackRequest(OtherPath, Absent, Absent, Some("c1"), Some("s1"))}
    \cup { CallbackRequest(RedirectPath, Some("access_denied"), desc, Absent, st) :
             desc \in {Absent, Some("The user said no")},
             st \in {Absent, Some("s1"), Some("s2")} }
    \cup { CallbackRequest(RedirectPath, err, Absent, code, st) :
             err \in {Absent, Some("")},
             code \in {Absent, Some(""), Some("c1")},
             st \in {Absent, Some(""), Some("s1"), Some("s2")} }

\* token endpoint answers to the authorization_code grant
ExchangeResponses ==
    [access_token : {Some("at1")},
     refresh_token : {Absent, Some("rt1")},
     id_token : {Absent},
     expires_at : {Some(SkewSeconds + MaxNow + 1)},
     scope : {Absent},
     token_type : {Absent, Some("bearer")}]

ErrOAuth(desc) == <<"OAuth error", desc>>                                  \* line 301
ErrInvalidCallback == <<"Invalid callback: state mismatch or missing code">> \* line 310
ErrBind == <<"Failed to start callback server">>                           \* line 322
ErrTimeout == <<"Authorization timeout">>                                  \* line 331
ErrExchange == <<"token exchange rejected">>        \* client.callback throws

AuthIdle ==
    /\ apc = [i \in Invs |-> "idle"]
    /\ issued = [i \in Invs |-> "s1"]
    /\ akey = [i \in Invs |-> Absent]
    /\ portOwner = 0
    /\ timerArmed = [i \in Invs |-> FALSE]
    /\ replies = [i \in Invs |-> <<>>]
    /\ settledBy = [i \in Invs |-> Absent]
    /\ exchanges = [i \in Invs |-> 0]
    /\ awrites = [i \in Invs |-> <<>>]
    /\ aresult = [i \in Invs |-> NoResult]

InitAuth ==
    /\ store = [k \in Keys |-> Null]
    /\ LifeIdle
    /\ AuthIdle

\* line 294-295: if (error)
IsErrorCallback(req) == TruthyStr(req.error)

\* line 296: error_description || error
ErrorDescription(req) ==
    IF TruthyStr(req.error_description) THEN req.error_description[1] ELSE req.error[1]

\* CallbackInvalid without the comparison with the issued state
CallbackInvalidNoCompare(req, expectedState) ==
    ~TruthyStr(req.code) \/ ~TruthyStr(req.state)

\* line 306: !code || !state || state !== expectedState
CallbackInvalid(req, expectedState) ==
    \/ ~TruthyStr(req.code)
    \/ ~TruthyStr(req.state)
    \/ req.state[1] # expectedState

\* this.manifest.name
ManifestName == "google"

\* the key argument of authorize(): none, or a key
KeyArgs == {Absent} \cup { Some(k) : k \in Keys }

\* a default parameter that replaces the key that was given
KeyOrDefaultAlways(arg) == ManifestName

\* line 237: key = this.manifest.name when no key is given
KeyOrDefault(arg) == IF arg = Absent THEN ManifestName ELSE arg[1]

\* lines 268-275: the record built from the token response
ExchangedRecord(token) ==
    TokenSet(token.access_token, token.refresh_token, token.id_token,
             token.expires_at, token.scope,
             Coalesce(token.token_type, Some("Bearer")))

\* lines 237-261 and 319-325: the state is generated, the URL is built and
\* handed to the browser, the server is created and listen() is called
StartAuthorize(i, k, st) ==
    /\ apc[i] = "idle"
    /\ apc' = [apc EXCEPT ![i] = "binding"]
    /\ issued' = [issued EXCEPT ![i] = st]
    /\ akey' = [akey EXCEPT ![i] = k]
    /\ UNCHANGED <<portOwner, timerArmed, replies, settledBy, exchanges, awrites,
                   aresult, store>>

\* listen() that succeeds on a port another listener holds
BindOkShared(i) ==
    /\ apc[i] = "binding"
    /\ portOwner' = i
    /\ apc' = [apc EXCEPT ![i] = "awaiting"]
    /\ timerArmed' = [timerArmed EXCEPT ![i] = TRUE]
    /\ UNCHANGED <<issued, akey, replies, settledBy, exchanges, awrites, aresult, store>>

\* lines 325-333: the port is free; the server listens and the timeout is armed
BindOk(i) ==
    /\ apc[i] = "binding"
    /\ portOwner = 0
    /\ portOwner' = i
    /\ apc' = [apc EXCEPT ![i] = "awaiting"]
    /\ timerArmed' = [timerArmed EXCEPT ![i] = TRUE]
    /\ UNCHANGED <<issued, akey, replies, settledBy, exchanges, awrites, aresult, store>>

\* lines 320-323: listen() fails (the port is held by a listener of this
\* process or of another one); the wait is rejected
BindFail(i) ==
    /\ apc[i] = "binding"
    /\ apc' = [apc EXCEPT ![i] = "failed"]
    /\ aresult' = [aresult EXCEPT ![i] = Throw(ErrBind)]
    /\ timerArmed' = [timerArmed EXCEPT ![i] = FALSE]
    /\ UNCHANGED <<issued, akey, portOwner, replies, settledBy, exchanges, awrites,
                   store>>

\* clearTimeout(timeoutId) without server.close()
CloseListenerTimerOnly(i) ==
    /\ timerArmed' = [timerArmed EXCEPT ![i] = FALSE]
    /\ portOwner' = portOwner

\* clearTimeout(timeoutId); server.close()
CloseListener(i) ==
    /\ timerArmed' = [timerArmed EXCEPT ![i] = FALSE]
    /\ portOwner' = IF portOwner = i THEN 0 ELSE portOwner

\* HandleRequest that clears the timeout when it answers 404
HandleRequestStrayCancels(i, req) ==
    /\ apc[i] = "awaiting"
    /\ Len(replies[i]) < MaxRequests
    /\ IF req.path # RedirectPath
       THEN /\ replies' = [replies EXCEPT ![i] = Append(@, 404)]
            /\ timerArmed' = [timerArmed EXCEPT ![i] = FALSE]
            /\ UNCHANGED <<apc, portOwner, settledBy, exchanges, aresult>>
       ELSE IF IsErrorCallback(req)
       THEN /\ replies' = [replies EXCEPT ![i] = Append(@, 400)]
            /\ CloseListener(i)
            /\ settledBy' = [settledBy EXCEPT ![i] = Some(req)]
            /\ apc' = [apc EXCEPT ![i] = "failed"]
            /\ aresult' = [aresult EXCEPT ![i] = Throw(ErrOAuth(ErrorDescription(req)))]
            /\ UNCHANGED exchanges
       ELSE IF CallbackInvalid(req, issued[i])
       THEN /\ replies' = [replies EXCEPT ![i] = Append(@, 400)]
            /\ CloseListener(i)
            /\ settledBy' = [settledBy EXCEPT ![i] = Some(req)]
            /\ apc' = [apc EXCEPT ![i] = "failed"]
            /\ aresult' = [aresult EXCEPT ![i] = Throw(ErrInvalidCallback)]
            /\ UNCHANGED exchanges
       ELSE /\ replies' = [replies EXCEPT ![i] = Append(@, 200)]
            /\ CloseListener(i)
            /\ settledBy' = [settledBy EXCEPT ![i] = Some(req)]
            /\ apc' = [apc EXCEPT ![i] = "exchanging"]
            /\ exchanges' = [exchanges EXCEPT ![i] = @ + 1]
            /\ UNCHANGED aresult
    /\ UNCHANGED <<issued, akey, awrites, store>>

\* lines 285-317: the request handler of the listener of authorize() i; a
\* resolved wait continues at lines 262-267 with the token exchange
HandleRequest(i, req) ==
    /\ apc[i] = "awaiting"
    /\ Len(replies[i]) < MaxRequests
    /\ IF req.path # RedirectPath
       THEN /\ replies' = [replies EXCEPT ![i] = Append(@, 404)]
            /\ UNCHANGED <<apc, portOwner, timerArmed, settledBy, exchanges, aresult>>
       ELSE IF IsErrorCallback(req)
       THEN /\ replies' = [replies EXCEPT ![i] = Append(@, 400)]
            /\ CloseListener(i)
            /\ settledBy' = [settledBy EXCEPT ![i] = Some(req)]
            /\ apc' = [apc EXCEPT ![i] = "failed"]
            /\ aresult' = [aresult EXCEPT ![i] = Throw(ErrOAuth(ErrorDescription(req)))]
            /\ UNCHANGED exchanges
       ELSE IF CallbackInvalid(req, issued[i])
       THEN /\ replies' = [replies EXCEPT ![i] = Append(@, 400)]
            /\ CloseListener(i)
            /\ settledBy' = [settledBy EXCEPT ![i] = Some(req)]
            /\ apc' = [apc EXCEPT ![i] = "failed"]
            /\ aresult' = [aresult EXCEPT ![i] = Throw(ErrInvalidCallback)]
            /\ UNCHANGED exchanges
       ELSE /\ replies' = [replies EXCEPT ![i] = Append(@, 200)]
            /\ CloseListener(i)
            /\ settledBy' = [settledBy EXCEPT ![i] = Some(req)]
            /\ apc' = [apc EXCEPT ![i] = "exchanging"]
            /\ exchanges' = [exchanges EXCEPT ![i] = @ + 1]
            /\ UNCHANGED aresult
    /\ UNCHANGED <<issued, akey, awrites, store>>

\* the handler of lines 285-317 run for a request that reaches it after the
\* wait has settled: server.close() (lines 300, 309, 315, 330) stops the
\* listening, not the connections already accepted, and the handler keeps
\* no record of having settled; resolve and reject of a settled promise,
\* clearTimeout and a second close() do nothing
LateRequest(i, req) ==
    /\ apc[i] \in {"exchanging", "complete", "failed"}
    /\ aresult[i] # Throw(ErrBind)
    /\ Len(replies[i]) < MaxRequests
    /\ replies' = [replies EXCEPT ![i] =
                     Append(@, IF req.path # RedirectPath THEN 404
                               ELSE IF IsErrorCallback(req) THEN 400
                               ELSE IF CallbackInvalid(req, issued[i]) THEN 400
                               ELSE 200)]
    /\ UNCHANGED <<apc, issued, akey, portOwner, timerArmed, settledBy, exchanges,
                   awrites, aresult, store>>

\* a timeout that every answered request cancels
CallbackTimeoutQuiet(i) ==
    /\ apc[i] = "awaiting"
    /\ timerArmed[i]
    /\ replies[i] = <<>>
    /\ CloseListener(i)
    /\ apc' = [apc EXCEPT ![i] = "failed"]
    /\ aresult' = [aresult EXCEPT ![i] = Throw(ErrTimeout)]
    /\ UNCHANGED <<issued, akey, replies, settledBy, exchanges, awrites, store>>

\* lines 329-332: the timeout fires
CallbackTimeout(i) ==
    /\ apc[i] = "awaiting"
    /\ timerArmed[i]
    /\ CloseListener(i)
    /\ apc' = [apc EXCEPT ![i] = "failed"]
    /\ aresult' = [aresult EXCEPT ![i] = Throw(ErrTimeout)]
    /\ UNCHANGED <<issued, akey, replies, settledBy, exchanges, awrites, store>>

\* lines 267-277: the exchange succeeds; the record is stored and returned
ExchangeOk(i, token) ==
    /\ apc[i] = "exchanging"
    /\ LET tokens == ExchangedRecord(token) IN
        /\ store' = [store EXCEPT ![KeyOrDefault(akey[i])] = tokens]
        /\ awrites' = [awrites EXCEPT ![i] =
                         Append(@, [key |-> KeyOrDefault(akey[i]), rec |-> tokens])]
        /\ aresult' = [aresult EXCEPT ![i] = Return(tokens)]
    /\ apc' = [apc EXCEPT ![i] = "complete"]
    /\ UNCHANGED <<issued, akey, portOwner, timerArmed, replies, settledBy, exchanges>>

\* line 267 throws
ExchangeFail(i) ==
    /\ apc[i] = "exchanging"
    /\ apc' = [apc EXCEPT ![i] = "failed"]
    /\ aresult' = [aresult EXCEPT ![i] = Throw(ErrExchange)]
    /\ UNCHANGED <<issued, akey, portOwner, timerArmed, replies, settledBy, exchanges,
                   awrites, store>>

\* a step of the authorization flow leaves the lifecycle callers and the database alone
AuthFrame == UNCHANGED <<lifeLocal, encVars, urlVars, devVars, cfgVars, kvVars, svVars, useVars>>

NextAuth ==
    \/ \E i \in Invs, k \in KeyArgs, st \in StateVals : StartAuthorize(i, k, st) /\ AuthFrame
    \/ \E i \in Invs : BindOk(i) /\ AuthFrame
    \/ \E i \in Invs : BindFail(i) /\ AuthFrame
    \/ \E i \in Invs, req \in Requests : HandleRequest(i, req) /\ AuthFrame
    \/ \E i \in Invs : CallbackTimeout(i) /\ AuthFrame
    \/ \E i \in Invs, token \in ExchangeResponses : ExchangeOk(i, token) /\ AuthFrame
    \/ \E i \in Invs : ExchangeFail(i) /\ AuthFrame

\* one authorize() with requests on connections accepted before the close
NextAuthLate ==
    \/ \E k \in KeyArgs, st \in StateVals : StartAuthorize(1, k, st) /\ AuthFrame
    \/ BindOk(1) /\ AuthFrame
    \/ BindFail(1) /\ AuthFrame
    \/ \E req \in Requests : HandleRequest(1, req) /\ AuthFrame
    \/ \E req \in Requests : LateRequest(1, req) /\ AuthFrame
    \/ CallbackTimeout(1) /\ AuthFrame
    \/ \E token \in ExchangeResponses : ExchangeOk(1, token) /\ AuthFrame
    \/ ExchangeFail(1) /\ AuthFrame

(***************************************************************************)
(* SQLiteStore (part_013) and EncryptedSQLiteStore (stores/encrypted.ts).  *)
(*                                                                         *)
(* In this part an accessToken string is modelled by the pieces that       *)
(* split(":") gives: a token without colon is one text piece, and the      *)
(* string written by encrypt() is an IV piece followed by a ciphertext     *)
(* piece.                                                                  *)
(***************************************************************************)
KeyChars == 64       \* encrypted.ts line 33: encryptionKey.length !== 64
KeyBytes == 32       \* aes-256-cbc takes a 32 byte key
IvBytes == 16        \* encrypted.ts line 47: randomBytes(16)

EncryptedTag == "__encrypted__"                       \* lines 87 and 104

Text(s) == <<[txt |-> s]>>

\* encryption key strings handed to the constructor: id names the string,
\* len is its length and hexLen the length of its longest prefix of hex digits
KeyString(id, len, hexLen) == [id |-> id, len |-> len, hexLen |-> hexLen]
KeyStrings ==
    { KeyString("A", KeyChars, KeyChars),
      KeyString("B", KeyChars, KeyChars),
      KeyString("half", KeyBytes, KeyBytes),
      KeyString("long", KeyChars + 2, KeyChars + 2),
      KeyString("nonhex", KeyChars, 0),
      KeyString("parthex", KeyChars, 10),
      KeyString("empty", 0, 0) }

\* Buffer.from(s, "hex") decodes pairs of hex digits up to the first
\* character that is none
HexToBuffer(ks) == [id |-> ks.id, bytes |-> ks.hexLen \div 2]

NoStore == [id |-> "none", bytes |-> 0]

\* values of randomBytes(16)
IvValues == {"iv0", "iv1"}

\* records handed to set(), and records written without encryption;
\* expiresAt is a time in epoch seconds
EncRecords ==
    { TokenSet(Some(Text("at0")), Absent, Absent, Absent, Absent, Absent),
      TokenSet(Some(Text("at0")), Some("rt0"), Absent, Some(SkewSeconds), Absent,
               Some("Bearer")),
      TokenSet(Some(Text("at1")), Some("rt0"), Absent, Absent, Some("email"),
               Some(EncryptedTag)) }

\* JSON.stringify of a TokenSet: the present fields, in insertion order;
\* head tells what became of the first sixteen bytes, {"accessToken":"
TokenFields == <<"accessToken", "refreshToken", "idToken", "expiresAt", "scope",
                 "tokenType">>
PresentFields(rec) == SelectSeq(TokenFields, LAMBDA f : rec[f] # Absent)
JsonStringify(rec) ==
    [head |-> "intact",
     pairs |-> [i \in DOMAIN PresentFields(rec) |->
                  <<PresentFields(rec)[i], rec[PresentFields(rec)[i]][1]>>]]

\* JSON.parse throws on a text that is no JSON
JsonParses(text) == text.head # "syntax"

\* JSON.parse of a text: a field of the TokenSet is what the text gives it;
\* when the first bytes were changed into another name, accessToken is gone
JsonField(text, f) ==
    LET hits == { i \in DOMAIN text.pairs : text.pairs[i][1] = f } IN
    IF hits = {} \/ (f = "accessToken" /\ text.head = "renamed")
    THEN Absent
    ELSE Some(text.pairs[CHOOSE i \in hits : TRUE][2])
JsonParse(text) ==
    TokenSet(JsonField(text, "accessToken"), JsonField(text, "refreshToken"),
             JsonField(text, "idToken"), JsonField(text, "expiresAt"),
             JsonField(text, "scope"), JsonField(text, "tokenType"))

NoRow == [norow |-> TRUE]

\* SQLiteStore.get, lines 12-16
SqliteGet(table, k) == IF table[k] = NoRow THEN Null ELSE JsonParse(table[k])
\* SQLiteStore.set, lines 17-19
SqliteSet(table, k, rec) == [table EXCEPT ![k] = JsonStringify(rec)]
\* SQLiteStore.delete, lines 20-22
SqliteDelete(table, k) == [table EXCEPT ![k] = NoRow]

(***************************************************************************)
(* AES-256-CBC.  A ciphertext is the term (key, iv, plaintext); damage     *)
(* tells whether bytes were cut off its end.  An IV piece carries the      *)
(* number of bytes it decodes to and how it differs from the IV the        *)
(* ciphertext was made with: "none"; "name", a difference inside the       *)
(* letters of the first field's name; "syntax", a difference that breaks   *)
(* the JSON syntax of the first block.                                     *)
(***************************************************************************)
IvPiece(v, n, delta) == [iv |-> v, bytes |-> n, delta |-> delta]
CtPiece(keyId, v, text, damage) ==
    [ct |-> [key |-> keyId, iv |-> v, text |-> text], damage |-> damage]

CipherOk(text) == [ok |-> TRUE, text |-> text]
CipherThrows == [ok |-> FALSE]

\* encrypt that writes half of the IV bytes in front of the ciphertext
EncryptHalfIv(keyBuf, v, text) ==
    <<IvPiece(v, IvBytes \div 2, "none"), CtPiece(keyBuf.id, v, text, "none")>>

\* encrypt, lines 46-55, for a key buffer of the right size
Encrypt(keyBuf, v, text) ==
    <<IvPiece(v, IvBytes, "none"), CtPiece(keyBuf.id, v, text, "none")>>

\* CBC decryption of the first block under a changed IV: the plaintext block
\* is changed by the same difference
FirstBlock(text, delta) ==
    IF delta = "none" THEN text
    ELSE [text EXCEPT !.head = IF delta = "name" THEN "renamed" ELSE "syntax"]

\* decrypt, lines 60-75
Decrypt(keyBuf, parts) ==
    IF Len(parts) # 2 THEN CipherThrows                       \* line 62
    ELSE IF keyBuf.bytes # KeyBytes THEN CipherThrows         \* line 69, key length
    ELSE IF "iv" \notin DOMAIN parts[1] THEN CipherThrows     \* line 69, IV length
    ELSE IF parts[1].bytes # IvBytes THEN CipherThrows        \* line 69, IV length
    ELSE IF "ct" \notin DOMAIN parts[2] THEN CipherThrows     \* line 72, block length
    ELSE IF parts[2].damage # "none" THEN CipherThrows        \* line 72, block length
    ELSE IF parts[2].ct.key # keyBuf.id THEN CipherThrows     \* line 72, padding
    ELSE CipherOk(FirstBlock(parts[2].ct.text, parts[1].delta))

ErrKeyFormat == <<"Encryption key must be a 64-character hex string (32 bytes)">>
ErrKeyLength == <<"Invalid key length">>              \* createCipheriv throws
ErrDecrypt(k) == <<"Failed to decrypt token for key", k>>         \* line 113

\* the tag test of get() that takes any tokenType for the tag
IsTaggedAny(rec) == rec.tokenType # Absent

\* line 104: encryptedToken.tokenType !== "__encrypted__"
IsTagged(rec) == rec.tokenType = Some(EncryptedTag)

\* what the last step on the database did: the operation, its key, the
\* outcome and whether decrypt() was called
Step(name, k, out, tried) == [op |-> name, key |-> k, out |-> out, tried |-> tried]

\* the writer of a row that was written without encryption
Plain == "plain"

EncIdle ==
    /\ db = [k \in Keys |-> NoRow]
    /\ encKey = NoStore
    /\ lastPut = [k \in Keys |-> Absent]
    /\ last = Step("none", "google", NoResult, FALSE)

\* constructor, lines 30-41
EncConstruct(ks) ==
    /\ IF ks.len = 0 \/ ks.len # KeyChars
       THEN /\ encKey' = NoStore
            /\ last' = Step("construct", "google", Throw(ErrKeyFormat), FALSE)
       ELSE /\ encKey' = HexToBuffer(ks)
            /\ last' = Step("construct", "google", Return(Null), FALSE)
    /\ UNCHANGED <<db, lastPut>>

\* EncSet that copies the refresh token into the record it stores
EncSetKeepsRefreshToken(k, rec, v) ==
    /\ encKey # NoStore
    /\ IF encKey.bytes # KeyBytes
       THEN /\ last' = Step("set", k, Throw(ErrKeyLength), FALSE)
            /\ UNCHANGED <<db, lastPut>>
       ELSE /\ db' = SqliteSet(db, k,
                       TokenSet(Some(Encrypt(encKey, v, JsonStringify(rec))),
                                rec.refreshToken, Absent, Absent, Absent,
                                Some(EncryptedTag)))
            /\ lastPut' = [lastPut EXCEPT ![k] = Some([rec |-> rec, keyId |-> encKey.id])]
            /\ last' = Step("set", k, Return(Null), FALSE)
    /\ UNCHANGED encKey

\* set, lines 80-91; createCipheriv (line 48) throws for a key buffer that
\* is not 32 bytes long
EncSet(k, rec, v) ==
    /\ encKey # NoStore
    /\ IF encKey.bytes # KeyBytes
       THEN /\ last' = Step("set", k, Throw(ErrKeyLength), FALSE)
            /\ UNCHANGED <<db, lastPut>>
       ELSE /\ db' = SqliteSet(db, k,
                       TokenSet(Some(Encrypt(encKey, v, JsonStringify(rec))),
                                Absent, Absent, Absent, Absent, Some(EncryptedTag)))
            /\ lastPut' = [lastPut EXCEPT ![k] = Some([rec |-> rec, keyId |-> encKey.id])]
            /\ last' = Step("set", k, Return(Null), FALSE)
    /\ UNCHANGED encKey

\* get, lines 96-118
EncGet(k) ==
    /\ encKey # NoStore
    /\ LET encryptedToken == SqliteGet(db, k) IN
       IF encryptedToken = Null
       THEN last' = Step("get", k, Return(Null), FALSE)
       ELSE IF ~IsTagged(encryptedToken)
       THEN last' = Step("get", k, Return(encryptedToken), FALSE)
       ELSE LET plain == Decrypt(encKey, encryptedToken.accessToken[1]) IN
            IF plain.ok /\ JsonParses(plain.text)
            THEN last' = Step("get", k, Return(JsonParse(plain.text)), TRUE)
            ELSE last' = Step("get", k, Throw(ErrDecrypt(k)), TRUE)
    /\ UNCHANGED <<db, encKey, lastPut>>

\* delete, inherited from SQLiteStore
EncDelete(k) ==
    /\ encKey # NoStore
    /\ db' = SqliteDelete(db, k)
    /\ lastPut' = [lastPut EXCEPT ![k] = Absent]
    /\ last' = Step("delete", k, Return(Null), FALSE)
    /\ UNCHANGED encKey

\* SQLiteStore.set on the same database file by a holder without encryption
PlainSet(k, rec) ==
    /\ db' = SqliteSet(db, k, rec)
    /\ lastPut' = [lastPut EXCEPT ![k] = Some([rec |-> rec, keyId |-> Plain])]
    /\ last' = Step("plainset", k, Return(Null), FALSE)
    /\ UNCHANGED encKey

\* damage done to a stored encrypted string outside the program
Damages == {"ivname", "ivsyntax", "ivshort", "cut", "nocolon", "colons"}
Damaged(parts, how) ==
    CASE how = "ivname" -> <<[parts[1] EXCEPT !.delta = "name"], parts[2]>>
      [] how = "ivsyntax" -> <<[parts[1] EXCEPT !.delta = "syntax"], parts[2]>>
      [] how = "ivshort" -> <<[parts[1] EXCEPT !.bytes = IvBytes - 1], parts[2]>>
      [] how = "cut" -> <<parts[1], [parts[2] EXCEPT !.damage = "cut"]>>
      [] how = "nocolon" -> <<parts[1]>>
      [] how = "colons" -> <<parts[1], parts[2], parts[2]>>

CorruptRow(k, how) ==
    /\ lastPut[k] # Absent
    /\ lastPut[k][1].keyId # Plain
    /\ LET wrapper == SqliteGet(db, k) IN
         db' = SqliteSet(db, k,
                 [wrapper EXCEPT !.accessToken = Some(Damaged(wrapper.accessToken[1], how))])
    /\ lastPut' = [lastPut EXCEPT ![k] = Absent]
    /\ last' = Step("corrupt", k, Return(Null), FALSE)
    /\ UNCHANGED encKey

InitEnc ==
    /\ store = [k \in Keys |-> Null]
    /\ LifeIdle
    /\ AuthIdle
    /\ EncIdle

EncFrame == UNCHANGED <<lifeVars, authVars, urlVars, devVars, cfgVars, kvVars, svVars, useVars>>

NextEnc ==
    \/ \E ks \in KeyStrings : EncConstruct(ks) /\ EncFrame
    \/ \E k \in Keys, rec \in EncRecords, v \in IvValues : EncSet(k, rec, v) /\ EncFrame
    \/ \E k \in Keys : EncGet(k) /\ EncFrame
    \/ \E k \in Keys : EncDelete(k) /\ EncFrame
    \/ \E k \in Keys, rec \in EncRecords : PlainSet(k, rec) /\ EncFrame
    \/ \E k \in Keys, how \in Damages : CorruptRow(k, how) /\ EncFrame

(***************************************************************************)
(* authorize, lines 238-252 and 262-267: the authorization URL and the     *)
(* parameters of the token exchange.  The wait for the callback between    *)
(* the two is the subject of SpecAuth; here it only delivers a code.       *)
(***************************************************************************)
\* a string value of a query parameter
Lit(s) == [lit |-> s]
\* generators.codeChallenge(v): base64url of the SHA-256 digest of v
CodeChallenge(v) == [s256 |-> v]

\* values of generators.codeVerifier(), generators.nonce(), and codes
VerifierVals == {"v1", "v2"}
NonceVals == {"n1"}
CodeVals == {"c1", "c2"}

\* URLSearchParams.get: the value of the first pair of that name, or null
SearchGet(query, name) ==
    LET hits == { i \in DOMAIN query : query[i][1] = name } IN
    IF hits = {} THEN Absent
    ELSE Some(query[CHOOSE i \in hits : \A j \in hits : i <= j][2])

\* URLSearchParams.set: the first pair of that name takes the value and the
\* other pairs of that name are removed; without such a pair one is appended
SearchSet(query, name, value) ==
    LET hits == { i \in DOMAIN query : query[i][1] = name } IN
    IF hits = {} THEN Append(query, <<name, value>>)
    ELSE LET first == CHOOSE i \in hits : \A j \in hits : i <= j
             kept == [i \in DOMAIN query |->
                        IF i = first THEN <<name, value>> ELSE query[i]]
             Keep(i) == i = first \/ i \notin hits
             F[i \in 0..Len(query)] ==
                 IF i = 0 THEN <<>>
                 ELSE IF Keep(i) THEN Append(F[i - 1], kept[i]) ELSE F[i - 1]
         IN F[Len(query)]

\* the loop of line 252 over Object.entries(extraAuthorizeParams)
RECURSIVE SetAll(_, _)
SetAll(query, entries) ==
    IF entries = <<>> THEN query
    ELSE SetAll(SearchSet(query, entries[1][1], entries[1][2]), Tail(entries))

\* provider manifests: the query the authorization endpoint already carries,
\* the scopes joined by a blank and the extra authorize parameters
Manifest(endpointQuery, scope, extra) ==
    [authorizationEndpoint |-> endpointQuery, scopes |-> scope,
     extraAuthorizeParams |-> extra]

EndpointQueries == { <<>>, << <<"tenant", Lit("common")>> >> }

ExtraParams ==
    { <<>>,
      << <<"access_type", Lit("offline")>>, <<"prompt", Lit("consent")>> >>,
      << <<"response_type", Lit("token")>> >>,
      << <<"code_challenge_method", Lit("plain")>> >>,
      << <<"code_challenge", Lit("v1")>> >>,
      << <<"state", Lit("fixed")>> >>,
      << <<"tenant", Lit("other")>> >> }

Manifests ==
    { Manifest(q, "openid email", x) : q \in EndpointQueries, x \in ExtraParams }

\* lines 243-252
AuthorizationUrl(manifest, clientId, redirectUri, codeChallenge, state, nonce) ==
    LET q0 == manifest.authorizationEndpoint
        q1 == SearchSet(q0, "response_type", Lit("code"))
        q2 == SearchSet(q1, "client_id", Lit(clientId))
        q3 == SearchSet(q2, "redirect_uri", Lit(redirectUri))
        q4 == SearchSet(q3, "scope", Lit(manifest.scopes))
        q5 == SearchSet(q4, "code_challenge", codeChallenge)
        q6 == SearchSet(q5, "code_challenge_method", Lit("S256"))
        q7 == SearchSet(q6, "state", Lit(state))
        q8 == SearchSet(q7, "nonce", Lit(nonce))
    IN SetAll(q8, manifest.extraAuthorizeParams)

ClientId == "client-1"
RedirectUri == "http://localhost:8787/callback"

UrlIdle ==
    /\ upc = "idle"
    /\ uman = Manifest(<<>>, "openid email", <<>>)
    /\ ugen = [codeVerifier |-> "v1", state |-> "s1", nonce |-> "n1"]
    /\ uurl = <<>>
    /\ uparams = Absent
    /\ uchecks = Absent

\* the client is created for a manifest (constructor, line 199)
UrlCreate(manifest) ==
    /\ upc = "idle"
    /\ upc' = "created"
    /\ uman' = manifest
    /\ UNCHANGED <<ugen, uurl, uparams, uchecks>>

\* lines 238-258: the values are generated and the URL is built and opened
UrlBuild(cv, st, nonce) ==
    /\ upc = "created"
    /\ upc' = "waiting"
    /\ ugen' = [codeVerifier |-> cv, state |-> st, nonce |-> nonce]
    /\ uurl' = AuthorizationUrl(uman, ClientId, RedirectUri, CodeChallenge(cv), st,
                                nonce)
    /\ UNCHANGED <<uman, uparams, uchecks>>

\* lines 261-267: the wait gave a code; the exchange is called
UrlExchange(code) ==
    /\ upc = "waiting"
    /\ upc' = "exchanging"
    /\ uparams' = Some([code |-> code, redirect_uri |-> RedirectUri,
                        code_verifier |-> ugen.codeVerifier])
    /\ uchecks' = Some([state |-> ugen.state, nonce |-> ugen.nonce])
    /\ UNCHANGED <<uman, ugen, uurl>>

InitUrl ==
    /\ store = [k \in Keys |-> Null]
    /\ LifeIdle
    /\ AuthIdle
    /\ EncIdle
    /\ UrlIdle

UrlFrame == UNCHANGED <<lifeVars, authVars, encVars, devVars, cfgVars, kvVars, svVars, useVars>>

NextUrl ==
    \/ \E manifest \in Manifests : UrlCreate(manifest) /\ UrlFrame
    \/ \E cv \in VerifierVals, st \in StateVals, nonce \in NonceVals :
          UrlBuild(cv, st, nonce) /\ UrlFrame
    \/ \E code \in CodeVals : UrlExchange(code) /\ UrlFrame

(***************************************************************************)
(* Device authorization flow (part_015): authorizeDevice,                  *)
(* requestDeviceCode and pollForToken.  Times are in milliseconds.         *)
(***************************************************************************)
MaxPolls == 3        \* token endpoint polls of one flow

DefaultPollInterval == 5000      \* line 48
DefaultTimeout == 300000         \* line 49
DefaultInterval == 5             \* line 132: data.interval || 5
DefaultDeviceKey == "device"     \* line 42
DeviceKeys == {DefaultDeviceKey, "work"}

\* options of authorizeDevice: whether the issuer of the client has a
\* device_authorization_endpoint, pollInterval, timeout, whether onUserCode
\* is given, and the key argument
DeviceConfigs ==
    [endpoint : BOOLEAN,
     pollInterval : {Absent, Some(2000)},
     timeout : {Absent, Some(6000)},
     onUserCode : BOOLEAN,
     key : {Absent, Some("work")}]

\* bodies of a successful device authorization response
DeviceData ==
    [device_code : {"dc1"},
     user_code : {"ABCD"},
     verification_uri : {"https://as/device"},
     expires_in : {8, 1800},
     interval : {Absent, Some(0), Some(1), Some(10)}]

\* lines 126-133
DeviceAuthorizationResponse(data) ==
    [deviceCode |-> data.device_code,
     userCode |-> data.user_code,
     verificationUri |-> data.verification_uri,
     expiresIn |-> data.expires_in,
     interval |-> IF TruthyNum(data.interval) THEN data.interval[1] ELSE DefaultInterval]

\* answers of the token endpoint to a device_code grant: the error member of
\* the rejection, Absent for a rejection without one
GrantErrors ==
    {Some("authorization_pending"), Some("slow_down"), Some("access_denied"),
     Some("expired_token"), Some("invalid_grant"), Absent}

DeviceTokenResponses ==
    [access_token : {Some("at1")},
     refresh_token : {Absent, Some("rt1")},
     id_token : {Absent},
     expires_at : {Some(SkewSeconds)},
     scope : {Absent},
     token_type : {Absent, Some("")}]

\* time a token endpoint call takes
Latencies == {0, 1500}

ErrUnsupported == <<"Provider does not support device authorization flow">>  \* line 100
ErrDeviceRequest == <<"Device authorization request failed">>                \* line 121
ErrDeviceTimeout == <<"Device authorization timeout">>                       \* line 154
ErrDenied == <<"User denied authorization">>                                 \* line 196
ErrExpired == <<"Device code expired. Please try again.">>                   \* line 200
ErrDeviceFailed(e) == <<"Device authorization failed", e>>                   \* line 204

Max(a, b) == IF a >= b THEN a ELSE b

\* line 147
PollingInterval(deviceAuth, pollInterval) == Max(deviceAuth.interval * 1000, pollInterval)

\* lines 171-178: the record built from the token response
DeviceRecord(tokenSet) ==
    TokenSet(tokenSet.access_token, tokenSet.refresh_token, tokenSet.id_token,
             tokenSet.expires_at, tokenSet.scope,
             IF TruthyStr(tokenSet.token_type) THEN tokenSet.token_type
             ELSE Some("Bearer"))

DevIdle ==
    /\ dpc = "idle"
    /\ dcfg = [endpoint |-> TRUE, pollInterval |-> Absent, timeout |-> Absent,
               onUserCode |-> FALSE, key |-> Absent]
    /\ dauth = Absent
    /\ dinterval = 0
    /\ dstart = 0
    /\ dclock = 0
    /\ dsince = 0
    /\ dwaits = <<>>
    /\ dpolls = <<>>
    /\ dnet = 0
    /\ dshown = <<>>
    /\ dwrites = <<>>
    /\ dstore = [k \in DeviceKeys |-> Null]
    /\ dresult = NoResult

DevTimeout == IF dcfg.timeout = Absent THEN DefaultTimeout ELSE dcfg.timeout[1]
DevPollInterval ==
    IF dcfg.pollInterval = Absent THEN DefaultPollInterval ELSE dcfg.pollInterval[1]
\* DevKey that ignores the key argument
DevKeyDefault == DefaultDeviceKey

DevKey == IF dcfg.key = Absent THEN DefaultDeviceKey ELSE dcfg.key[1]

DevFail(e) ==
    /\ dpc' = "failed"
    /\ dresult' = Throw(e)

\* lines 151-158: the head of the loop, reached at the time clock
LoopHead(start, clock) ==
    IF clock - start > DevTimeout
    THEN DevFail(ErrDeviceTimeout)
    ELSE dpc' = "sleeping" /\ UNCHANGED dresult

\* what the catch block of lines 180-205 does with a rejection after which
\* access_denied is polled again
AfterGrantErrorRetryDenied(e) ==
    IF e = Some("authorization_pending") \/ e = Some("access_denied") THEN [next |-> "continue"]
    ELSE IF e = Some("slow_down") THEN [next |-> "slow"]
    ELSE IF e = Some("expired_token") THEN [next |-> "throw", error |-> ErrExpired]
    ELSE [next |-> "throw", error |-> ErrDeviceFailed(e)]

\* the catch block without the authorization_pending case
AfterGrantErrorNoPending(e) ==
    IF e = Some("slow_down") THEN [next |-> "slow"]
    ELSE IF e = Some("access_denied") THEN [next |-> "throw", error |-> ErrDenied]
    ELSE IF e = Some("expired_token") THEN [next |-> "throw", error |-> ErrExpired]
    ELSE [next |-> "throw", error |-> ErrDeviceFailed(e)]

\* lines 180-205: what the catch block does with a rejection of the grant
AfterGrantError(e) ==
    IF e = Some("authorization_pending") THEN [next |-> "continue"]
    ELSE IF e = Some("slow_down") THEN [next |-> "slow"]
    ELSE IF e = Some("access_denied") THEN [next |-> "throw", error |-> ErrDenied]
    ELSE IF e = Some("expired_token") THEN [next |-> "throw", error |-> ErrExpired]
    ELSE [next |-> "throw", error |-> ErrDeviceFailed(e)]

\* DevStart that sends the device code request before it looks for the
\* endpoint
DevStartSendFirst(cfg) ==
    /\ dpc = "idle"
    /\ dcfg' = cfg
    /\ dnet' = dnet + 1
    /\ IF ~cfg.endpoint
       THEN DevFail(ErrUnsupported)
       ELSE dpc' = "requesting" /\ UNCHANGED dresult
    /\ UNCHANGED <<dauth, dinterval, dstart, dclock, dsince, dwaits, dpolls, dshown,
                   dwrites, dstore>>

\* lines 44-57 and 94-117: the options are read; without device endpoint the
\* flow fails, otherwise the device code request is sent
DevStart(cfg) ==
    /\ dpc = "idle"
    /\ dcfg' = cfg
    /\ IF ~cfg.endpoint
       THEN DevFail(ErrUnsupported) /\ UNCHANGED dnet
       ELSE dpc' = "requesting" /\ dnet' = dnet + 1 /\ UNCHANGED dresult
    /\ UNCHANGED <<dauth, dinterval, dstart, dclock, dsince, dwaits, dpolls, dshown,
                   dwrites, dstore>>

\* lines 119-122: the device authorization endpoint answers with an error
DevCodeFail ==
    /\ dpc = "requesting"
    /\ DevFail(ErrDeviceRequest)
    /\ UNCHANGED <<dcfg, dauth, dinterval, dstart, dclock, dsince, dwaits, dpolls, dnet,
                   dshown, dwrites, dstore>>

\* DevCodeOk that does not call onUserCode
DevCodeOkSilent(data) ==
    /\ dpc = "requesting"
    /\ LET deviceAuth == DeviceAuthorizationResponse(data) IN
        /\ dauth' = Some(deviceAuth)
        /\ dinterval' = PollingInterval(deviceAuth, DevPollInterval)
    /\ dstart' = dclock
    /\ LoopHead(dclock, dclock)
    /\ UNCHANGED <<dcfg, dclock, dsince, dwaits, dpolls, dnet, dshown, dwrites, dstore>>

\* lines 124-133, 59-77 and 146-158: the response is read, the user code is
\* shown, the interval is fixed and the loop is entered
DevCodeOk(data) ==
    /\ dpc = "requesting"
    /\ LET deviceAuth == DeviceAuthorizationResponse(data) IN
        /\ dauth' = Some(deviceAuth)
        /\ dshown' = IF dcfg.onUserCode
                     THEN Append(dshown, [userCode |-> deviceAuth.userCode,
                                          verificationUri |-> deviceAuth.verificationUri,
                                          polls |-> Len(dpolls)])
                     ELSE dshown
        /\ dinterval' = PollingInterval(deviceAuth, DevPollInterval)
    /\ dstart' = dclock
    /\ LoopHead(dclock, dclock)
    /\ UNCHANGED <<dcfg, dclock, dsince, dwaits, dpolls, dnet, dwrites, dstore>>

\* lines 158-167: the sleep is over and the grant is sent
DevPoll ==
    /\ dpc = "sleeping"
    /\ Len(dpolls) < MaxPolls
    /\ dclock' = dclock + dinterval
    /\ dwaits' = Append(dwaits, dsince + dinterval)
    /\ dsince' = 0
    /\ dpc' = "granting"
    /\ UNCHANGED <<dcfg, dauth, dinterval, dstart, dpolls, dnet, dshown, dwrites, dstore,
                   dresult>>

\* lines 169-178 and 80-84: the grant succeeds; the record is stored and
\* returned
DevGrantOk(tokenSet, latency) ==
    /\ dpc = "granting"
    /\ dclock' = dclock + latency
    /\ dpolls' = Append(dpolls, Some("ok"))
    /\ LET tokens == DeviceRecord(tokenSet) IN
        /\ dstore' = [dstore EXCEPT ![DevKey] = tokens]
        /\ dwrites' = Append(dwrites, [key |-> DevKey, rec |-> tokens])
        /\ dresult' = Return(tokens)
    /\ dpc' = "done"
    /\ UNCHANGED <<dcfg, dauth, dinterval, dstart, dsince, dwaits, dnet, dshown>>

\* lines 180-205: the grant is rejected
DevGrantErr(e, latency) ==
    /\ dpc = "granting"
    /\ dclock' = dclock + latency
    /\ dpolls' = Append(dpolls, e)
    /\ LET after == AfterGrantError(e) IN
        IF after.next = "continue" THEN LoopHead(dstart, dclock + latency)
        ELSE IF after.next = "slow" THEN dpc' = "slowing" /\ UNCHANGED dresult
        ELSE DevFail(after.error)
    /\ UNCHANGED <<dcfg, dauth, dinterval, dstart, dsince, dwaits, dnet, dshown, dwrites,
                   dstore>>

\* lines 191-192: the sleep after slow_down is over
DevSlowDone ==
    /\ dpc = "slowing"
    /\ dclock' = dclock + dinterval
    /\ dsince' = dsince + dinterval
    /\ LoopHead(dstart, dclock + dinterval)
    /\ UNCHANGED <<dcfg, dauth, dinterval, dstart, dwaits, dpolls, dnet, dshown, dwrites,
                   dstore>>

InitDev ==
    /\ store = [k \in Keys |-> Null]
    /\ LifeIdle
    /\ AuthIdle
    /\ EncIdle
    /\ UrlIdle
    /\ DevIdle

DevFrame == UNCHANGED <<lifeVars, authVars, encVars, urlVars, cfgVars, kvVars, svVars, useVars>>

NextDev ==
    \/ \E cfg \in DeviceConfigs : DevStart(cfg) /\ DevFrame
    \/ DevCodeFail /\ DevFrame
    \/ \E data \in DeviceData : DevCodeOk(data) /\ DevFrame
    \/ DevPoll /\ DevFrame
    \/ \E tokenSet \in DeviceTokenResponses, latency \in Latencies :
          DevGrantOk(tokenSet, latency) /\ DevFrame
    \/ \E e \in GrantErrors, latency \in Latencies : DevGrantErr(e, latency) /\ DevFrame
    \/ DevSlowDone /\ DevFrame

(***************************************************************************)
(* Construction and initialisation of the client (part_014:177-235 and     *)
(* 403-432, part_016).  clientId and redirectUri are sequences of pieces   *)
(* of text, so that trim() and new URL() are computed.                     *)
(***************************************************************************)
MaxUses == 2         \* method calls on one client object

WhiteSpace == {" ", "\t"}

RECURSIVE TrimStart(_)
TrimStart(s) == IF s # <<>> /\ s[1] \in WhiteSpace THEN TrimStart(Tail(s)) ELSE s

RECURSIVE TrimEnd(_)
TrimEnd(s) ==
    IF s # <<>> /\ s[Len(s)] \in WhiteSpace THEN TrimEnd(SubSeq(s, 1, Len(s) - 1)) ELSE s

\* String.prototype.trim
Trim(s) == TrimEnd(TrimStart(s))

\* truthiness of an optional string given as pieces
TruthyText(o) == o # Absent /\ o[1] # <<>>

Schemes == {"http:", "https:"}
Authorities == {"//localhost:8787"}

\* new URL(s) succeeds: after the surrounding white space, a scheme and a
\* host
ParsesAsUrl(s) ==
    LET u == Trim(s) IN Len(u) >= 2 /\ u[1] \in Schemes /\ u[2] \in Authorities

ClientIds ==
    {Absent, Some(<<>>), Some(<<" ", "\t">>), Some(<<"i", "d">>), Some(<<" ", "i", "d">>)}

RedirectUris ==
    {Absent, Some(<<>>), Some(<<" ">>), Some(<<"callback">>), Some(<<"http:">>),
     Some(<<"//localhost:8787", "/callback">>),
     Some(<<"http:", "//localhost:8787", "/callback">>)}

\* ProviderManifest (types.ts:1-14), the members the constructor, init and
\* authorizeDevice read
ProviderManifests ==
    [name : {ManifestName},
     displayName : {"Google"},
     authorizationEndpoint : {Absent, Some(""), Some("https://as/authorize")},
     tokenEndpoint : {Absent, Some(""), Some("https://as/token")},
     revocationEndpoint : {Absent, Some("https://as/revoke")},
     deviceCodeSupported : {Absent, Some(FALSE), Some(TRUE)}]

GoodManifest ==
    [name |-> ManifestName, displayName |-> "Google",
     authorizationEndpoint |-> Some("https://as/authorize"),
     tokenEndpoint |-> Some("https://as/token"),
     revocationEndpoint |-> Absent, deviceCodeSupported |-> Some(TRUE)]

\* part_016:10: byName.set(m.name, m)
RegistryAdd(reg, m) ==
    [n \in DOMAIN reg \cup {m.name} |-> IF n = m.name THEN m ELSE reg[n]]

\* part_016:7-9: new ProviderRegistry(manifests)
RECURSIVE NewRegistry(_)
NewRegistry(manifests) ==
    IF manifests = <<>> THEN <<>>
    ELSE RegistryAdd(NewRegistry(SubSeq(manifests, 1, Len(manifests) - 1)),
                     manifests[Len(manifests)])

\* part_016:11: byName.get(name)
RegistryGet(reg, name) == IF name \in DOMAIN reg THEN Some(reg[name]) ELSE Absent

\* the reg argument of the constructor
Registries ==
    {Absent, Some(NewRegistry(<<>>)), Some(NewRegistry(<<GoodManifest>>)),
     Some(NewRegistry(<<GoodManifest, [GoodManifest EXCEPT !.tokenEndpoint = Absent]>>))}

\* opts.provider: a name or a manifest
Providers ==
    {[kind |-> "string", name |-> n] : n \in {ManifestName, "github"}}
    \cup {[kind |-> "object", manifest |-> m] : m \in ProviderManifests}

ClientOptions ==
    [provider : Providers, clientId : ClientIds, redirectUri : RedirectUris]

ErrUnknownProvider(name) == <<"Unknown provider", name>>                   \* line 181
ErrClientIdRequired == <<"clientId is required and cannot be empty">>      \* line 186
ErrRedirectUriRequired == <<"redirectUri is required and cannot be empty">> \* line 189
ErrInvalidRedirectUri(uri) == <<"Invalid redirectUri", uri>>               \* line 196
ErrMissingAuthorizationEndpoint(name) == <<"missing authorizationEndpoint", name>> \* 210
ErrMissingTokenEndpoint(name) == <<"missing tokenEndpoint", name>>         \* line 213

\* lines 178-197 without the trim() of line 185
ConstructorOutcomeNoTrim(opts, reg) ==
    LET manifest == IF opts.provider.kind = "string"
                    THEN IF reg = Absent THEN Absent
                         ELSE RegistryGet(reg[1], opts.provider.name)
                    ELSE Some(opts.provider.manifest)
    IN  IF manifest = Absent
        THEN Throw(ErrUnknownProvider(IF opts.provider.kind = "string"
                                      THEN opts.provider.name ELSE "unknown"))
        ELSE IF ~TruthyText(opts.clientId)
        THEN Throw(ErrClientIdRequired)
        ELSE IF ~TruthyText(opts.redirectUri) \/ Trim(opts.redirectUri[1]) = <<>>
        THEN Throw(ErrRedirectUriRequired)
        ELSE IF ~ParsesAsUrl(opts.redirectUri[1])
        THEN Throw(ErrInvalidRedirectUri(opts.redirectUri[1]))
        ELSE Return(manifest[1])

\* lines 178-204: the constructor throws, or keeps the manifest
ConstructorOutcome(opts, reg) ==
    LET manifest == IF opts.provider.kind = "string"
                    THEN IF reg = Absent THEN Absent
                         ELSE RegistryGet(reg[1], opts.provider.name)
                    ELSE Some(opts.provider.manifest)
    IN  IF manifest = Absent
        THEN Throw(ErrUnknownProvider(IF opts.provider.kind = "string"
                                      THEN opts.provider.name ELSE "unknown"))
        ELSE IF ~TruthyText(opts.clientId) \/ Trim(opts.clientId[1]) = <<>>
        THEN Throw(ErrClientIdRequired)
        ELSE IF ~TruthyText(opts.redirectUri) \/ Trim(opts.redirectUri[1]) = <<>>
        THEN Throw(ErrRedirectUriRequired)
        ELSE IF ~ParsesAsUrl(opts.redirectUri[1])
        THEN Throw(ErrInvalidRedirectUri(opts.redirectUri[1]))
        ELSE Return(manifest[1])

\* lines 216-221: the metadata the Issuer is built from
IssuerMetadata(manifest) ==
    [issuer |-> Some(manifest.displayName),
     authorization_endpoint |-> manifest.authorizationEndpoint,
     token_endpoint |-> manifest.tokenEndpoint,
     revocation_endpoint |-> manifest.revocationEndpoint]

\* a member of the issuer: undefined for metadata it was not built from
IssuerGet(issuer, member) ==
    IF member \in DOMAIN issuer THEN issuer[member] ELSE Absent

CfgIdle ==
    /\ cpc = "none"
    /\ copts = [provider |-> [kind |-> "string", name |-> ManifestName],
                clientId |-> Absent, redirectUri |-> Absent]
    /\ creg = Absent
    /\ cman = Absent
    /\ cissuer = Absent
    /\ ckey = Absent
    /\ cnet = 0
    /\ caccess = 0
    /\ cuses = 0
    /\ cresult = NoResult
    /\ cdevice = NoResult

\* new OAuthClient(opts, reg) (lines 177-205); createClient (line 423)
\* passes opts.registry as reg
Construct(opts, reg) ==
    /\ cpc = "none"
    /\ copts' = opts
    /\ creg' = reg
    /\ LET out == ConstructorOutcome(opts, reg) IN
        IF out.kind = "throw"
        THEN cpc' = "rejected" /\ cresult' = out /\ UNCHANGED cman
        ELSE cpc' = "constructed" /\ cman' = Some(out.value) /\ UNCHANGED cresult
    /\ UNCHANGED <<cissuer, ckey, cnet, caccess, cuses, cdevice>>

\* init() (lines 207-235)
ClientInit ==
    /\ cpc = "constructed"
    /\ IF ~TruthyStr(cman[1].authorizationEndpoint)
       THEN /\ cpc' = "init_failed"
            /\ cresult' = Throw(ErrMissingAuthorizationEndpoint(cman[1].name))
            /\ UNCHANGED cissuer
       ELSE IF ~TruthyStr(cman[1].tokenEndpoint)
       THEN /\ cpc' = "init_failed"
            /\ cresult' = Throw(ErrMissingTokenEndpoint(cman[1].name))
            /\ UNCHANGED cissuer
       ELSE /\ cpc' = "ready"
            /\ cissuer' = Some(IssuerMetadata(cman[1]))
            /\ UNCHANGED cresult
    /\ UNCHANGED <<copts, creg, cman, ckey, cnet, caccess, cuses, cdevice>>

\* getToken(key) (lines 337-339) on a client object: one store.get
ClientGetToken ==
    /\ cpc \in {"constructed", "init_failed", "ready"}
    /\ cuses < MaxUses
    /\ cuses' = cuses + 1
    /\ caccess' = caccess + 1
    /\ UNCHANGED <<cpc, copts, creg, cman, cissuer, ckey, cnet, cresult, cdevice>>

\* request(url, init, key) (lines 360-401) with a well-formed url on a
\* client object: the store is read, and with a fresh record the call is
\* sent
ClientRequest(hasRecord) ==
    /\ cpc \in {"constructed", "init_failed", "ready"}
    /\ cuses < MaxUses
    /\ cuses' = cuses + 1
    /\ caccess' = caccess + 1
    /\ cnet' = IF hasRecord THEN cnet + 1 ELSE cnet
    /\ UNCHANGED <<cpc, copts, creg, cman, cissuer, ckey, cresult, cdevice>>

\* authorizeDevice(key, onUserCode) of the client (lines 403-419) up to the
\* device code request (part_015:94-117): key defaults to the name of the
\* manifest; the flow is given this.client, whose issuer init() built
ClientAuthorizeDevice(keyArg) ==
    /\ cpc = "ready"
    /\ cdevice = NoResult
    /\ ckey' = Some(IF keyArg = Absent THEN cman[1].name ELSE keyArg[1])
    /\ IF ~TruthyStr(IssuerGet(cissuer[1], "device_authorization_endpoint"))
       THEN cdevice' = Throw(ErrUnsupported) /\ UNCHANGED cnet
       ELSE cdevice' = [kind |-> "requesting"] /\ cnet' = cnet + 1
    /\ UNCHANGED <<cpc, copts, creg, cman, cissuer, caccess, cuses, cresult>>

InitCfg ==
    /\ store = [k \in Keys |-> Null]
    /\ LifeIdle
    /\ AuthIdle
    /\ EncIdle
    /\ UrlIdle
    /\ DevIdle
    /\ CfgIdle

CfgFrame == UNCHANGED <<lifeVars, authVars, encVars, urlVars, devVars, kvVars, svVars, useVars>>

NextCfg ==
    \/ \E opts \in ClientOptions, reg \in Registries : Construct(opts, reg) /\ CfgFrame
    \/ ClientInit /\ CfgFrame
    \/ ClientGetToken /\ CfgFrame
    \/ \E hasRecord \in BOOLEAN : ClientRequest(hasRecord) /\ CfgFrame
    \/ \E keyArg \in KeyArgs : ClientAuthorizeDevice(keyArg) /\ CfgFrame

(***************************************************************************)
(* MemoryStore (part_012) and SQLiteStore (part_013) given the same calls. *)
(* Keys and prefixes are sequences of characters.                          *)
(***************************************************************************)
StoreKeys == { <<"u", ":", "1">>, <<"u", "_", "1">>, <<"U", ":", "1">>, <<"a", "1">> }

Prefixes == { <<>>, <<"u">>, <<"u", ":">>, <<"u", "_">>, <<"U">>, <<"%">>, <<"a", "1", "x">> }

StoreRecords ==
    { TokenSet(Some("at1"), Absent, Absent, Absent, Absent, Absent),
      TokenSet(Some("at2"), Some("rt0"), Absent, Some(SkewSeconds), Absent,
               Some("Bearer")) }

\* String.prototype.startsWith
StartsWith(k, prefix) ==
    Len(prefix) <= Len(k) /\ SubSeq(k, 1, Len(prefix)) = prefix

\* the lower case of an ASCII letter, as SQLite's LIKE folds it
Lower(c) == IF c = "U" THEN "u" ELSE IF c = "A" THEN "a" ELSE c

\* SQLite's LIKE: % stands for any run of characters, _ for any one
\* character, and ASCII letters match whatever their case
RECURSIVE Like(_, _)
Like(s, pattern) ==
    IF pattern = <<>> THEN s = <<>>
    ELSE IF pattern[1] = "%"
    THEN Like(s, Tail(pattern)) \/ (s # <<>> /\ Like(Tail(s), pattern))
    ELSE /\ s # <<>>
         /\ pattern[1] = "_" \/ Lower(pattern[1]) = Lower(s[1])
         /\ Like(Tail(s), Tail(pattern))

\* MemoryStore.get, line 5: this.mem.get(key) ?? null
MemoryGet(map, k) == map[k]
\* MemoryStore.set, line 6
MemorySet(map, k, rec) == [map EXCEPT ![k] = rec]
\* MemoryStore.delete, line 7
MemoryDelete(map, k) == [map EXCEPT ![k] = Null]
\* MemoryStore.list, lines 8-10
MemoryList(map, prefix) == { k \in DOMAIN map : map[k] # Null /\ StartsWith(k, prefix) }

\* SQLiteStore.list, lines 23-26: WHERE k LIKE `${prefix}%`
SqliteList(table, prefix) ==
    { k \in DOMAIN table : table[k] # NoRow /\ Like(k, prefix \o <<"%">>) }

KvIdle ==
    /\ kmem = [k \in StoreKeys |-> Null]
    /\ ksql = [k \in StoreKeys |-> NoRow]
    /\ kmap = [k \in StoreKeys |-> Null]
    /\ klast = [op |-> "none"]

\* set(k, rec) on both stores
KvSet(k, rec) ==
    /\ kmem' = MemorySet(kmem, k, rec)
    /\ ksql' = SqliteSet(ksql, k, rec)
    /\ kmap' = [kmap EXCEPT ![k] = rec]
    /\ klast' = [op |-> "set", key |-> k]

\* delete(k) on both stores
KvDelete(k) ==
    /\ kmem' = MemoryDelete(kmem, k)
    /\ ksql' = SqliteDelete(ksql, k)
    /\ kmap' = [kmap EXCEPT ![k] = Null]
    /\ klast' = [op |-> "delete", key |-> k, before |-> kmap]

\* get(k) on both stores
KvGet(k) ==
    /\ klast' = [op |-> "get", key |-> k,
                 mem |-> MemoryGet(kmem, k), sql |-> SqliteGet(ksql, k)]
    /\ UNCHANGED <<kmem, ksql, kmap>>

\* list(prefix) on both stores
KvList(prefix) ==
    /\ klast' = [op |-> "list", prefix |-> prefix,
                 mem |-> MemoryList(kmem, prefix), sql |-> SqliteList(ksql, prefix)]
    /\ UNCHANGED <<kmem, ksql, kmap>>

InitKv ==
    /\ store = [k \in Keys |-> Null]
    /\ LifeIdle
    /\ AuthIdle
    /\ EncIdle
    /\ UrlIdle
    /\ DevIdle
    /\ CfgIdle
    /\ KvIdle

KvFrame == UNCHANGED <<lifeVars, authVars, encVars, urlVars, devVars, cfgVars, svVars, useVars>>

NextKv ==
    \/ \E k \in StoreKeys, rec \in StoreRecords : KvSet(k, rec) /\ KvFrame
    \/ \E k \in StoreKeys : KvDelete(k) /\ KvFrame
    \/ \E k \in StoreKeys : KvGet(k) /\ KvFrame
    \/ \E prefix \in Prefixes : KvList(prefix) /\ KvFrame

(***************************************************************************)
(* refreshIfNeeded (part_014:341-358) with the token endpoint in the       *)
(* picture: the server answers the grants in the order it receives them,   *)
(* and each answer carries a new refresh token that supersedes the ones    *)
(* issued before.  The clock stands still.                                 *)
(***************************************************************************)
\* the refresh tokens and access tokens the server issues, in this order
IssuedRefreshTokens == <<"rt1", "rt2">>
IssuedAccessTokens == <<"at1", "at2">>

\* the n-th answer of the token endpoint to a refresh_token grant
IssuedResponse(n, withExpiry) ==
    [access_token |-> Some(IssuedAccessTokens[n]),
     refresh_token |-> Some(IssuedRefreshTokens[n]),
     id_token |-> Absent,
     expires_at |-> IF withExpiry THEN Some(SkewSeconds + MaxNow + 1) ELSE Absent,
     scope |-> Absent,
     token_type |-> Some("bearer")]

\* stale records with a refresh token
StaleRecords ==
    { TokenSet(Some("at0"), Some("rt0"), Absent, exp, Absent, Absent) :
        exp \in {Absent, Some(0), Some(SkewSeconds)} }

SvIdle ==
    /\ vpc = [p \in Procs |-> "idle"]
    /\ vt = [p \in Procs |-> Null]
    /\ vresp = [p \in Procs |-> Absent]
    /\ vissued = 0
    /\ vwrites = <<>>
    /\ vstore = TokenSet(Some("at0"), Some("rt0"), Absent, Absent, Absent, Absent)

\* lines 342-347: the record is read; a stale record with a refresh token
\* has the grant sent
SvRead(p) ==
    /\ vpc[p] = "idle"
    /\ vt' = [vt EXCEPT ![p] = vstore]
    /\ vpc' = [vpc EXCEPT ![p] =
                 IF IsFresh(vstore, 0) \/ CannotRefresh(vstore) THEN "returned"
                 ELSE "sent"]
    /\ UNCHANGED <<vresp, vissued, vwrites, vstore>>

\* the token endpoint answers the grant of caller p
SvIssue(p, withExpiry) ==
    /\ vpc[p] = "sent"
    /\ vissued' = vissued + 1
    /\ vresp' = [vresp EXCEPT ![p] = Some(IssuedResponse(vissued + 1, withExpiry))]
    /\ vpc' = [vpc EXCEPT ![p] = "issued"]
    /\ UNCHANGED <<vt, vwrites, vstore>>

\* lines 347-357: the answer arrives; next is built from the record read
\* and stored
SvReceive(p) ==
    /\ vpc[p] = "issued"
    /\ vstore' = NextRecord(vt[p], vresp[p][1])
    /\ vwrites' = Append(vwrites, p)
    /\ vpc' = [vpc EXCEPT ![p] = "done"]
    /\ UNCHANGED <<vt, vresp, vissued>>

InitSv ==
    /\ store = [k \in Keys |-> Null]
    /\ LifeIdle
    /\ AuthIdle
    /\ EncIdle
    /\ UrlIdle
    /\ DevIdle
    /\ CfgIdle
    /\ KvIdle
    /\ vpc = [p \in Procs |-> "idle"]
    /\ vt = [p \in Procs |-> Null]
    /\ vresp = [p \in Procs |-> Absent]
    /\ vissued = 0
    /\ vwrites = <<>>
    /\ vstore \in StaleRecords

SvFrame == UNCHANGED <<lifeVars, authVars, encVars, urlVars, devVars, cfgVars, kvVars, useVars>>

NextSv ==
    \/ \E p \in Procs : SvRead(p) /\ SvFrame
    \/ \E p \in Procs, withExpiry \in BOOLEAN : SvIssue(p, withExpiry) /\ SvFrame
    \/ \E p \in Procs : SvReceive(p) /\ SvFrame

(***************************************************************************)
(* The calls that use this.client, which only init() assigns (line 233):   *)
(* authorize (237-278), the refresh of request (341-358, 360-372) and      *)
(* authorizeDevice (403-419), on a client object in any state.             *)
(***************************************************************************)
\* strings new URL() accepts
AbsoluteUrls == {"https://as/authorize", "https://as/token", "https://as/revoke"}

ErrUrlType == <<"TypeError: Invalid URL">>                     \* new URL throws
ErrNoClient == <<"TypeError: Cannot read properties of undefined">>

UseIdle ==
    /\ npc = "none"
    /\ nbrowser = 0
    /\ nlisten = 0
    /\ nwrites = 0
    /\ nresult = NoResult
    /\ nrefresh = NoResult

\* authorize(key) up to the await of line 261: the URL is built from the
\* manifest (243-252), the browser is started (255-259) and waitForCallback
\* creates the server and listens (285-328); this.client is not read
ClientAuthorize ==
    /\ cpc \in {"constructed", "init_failed", "ready"}
    /\ npc = "none"
    /\ IF cman[1].authorizationEndpoint = Absent
          \/ cman[1].authorizationEndpoint[1] \notin AbsoluteUrls
       THEN /\ npc' = "done"
            /\ nresult' = Throw(ErrUrlType)
            /\ UNCHANGED <<nbrowser, nlisten>>
       ELSE /\ npc' = "waiting"
            /\ nbrowser' = nbrowser + 1
            /\ nlisten' = nlisten + 1
            /\ UNCHANGED nresult
    /\ UNCHANGED <<nwrites, nrefresh, cfgVars>>

\* the wait of line 261 rejects (lines 301, 310, 322, 331)
ClientAuthorizeRejected(e) ==
    /\ npc = "waiting"
    /\ npc' = "done"
    /\ nresult' = Throw(e)
    /\ UNCHANGED <<nbrowser, nlisten, nwrites, nrefresh, cfgVars>>

\* the wait of line 261 resolves with the code: this.client.callback (line
\* 267) is the first read of this.client; with init() not completed it is
\* undefined
ClientAuthorizeCode(exchanged) ==
    /\ npc = "waiting"
    /\ npc' = "done"
    /\ IF cpc # "ready"
       THEN /\ nresult' = Throw(ErrNoClient)
            /\ UNCHANGED <<cnet, nwrites>>
       ELSE /\ cnet' = cnet + 1
            /\ IF exchanged
               THEN nwrites' = nwrites + 1 /\ nresult' = Return("tokens")
               ELSE nresult' = Throw(ErrExchange) /\ UNCHANGED nwrites
    /\ UNCHANGED <<nbrowser, nlisten, nrefresh>>
    /\ UNCHANGED <<cpc, copts, creg, cman, cissuer, ckey, caccess, cuses, cresult, cdevice>>

\* request(url, init, key) with a record that is past the skew and has a
\* refresh token: refreshIfNeeded reads the store (line 342) and calls
\* this.client.refresh (line 347); the refreshed record is stored (356)
\* and the call is sent (line 376)
ClientRequestRefresh(granted) ==
    /\ cpc \in {"constructed", "init_failed", "ready"}
    /\ nrefresh = NoResult
    /\ caccess' = caccess + 1
    /\ IF cpc # "ready"
       THEN /\ nrefresh' = Throw(ErrNoClient)
            /\ UNCHANGED <<cnet, nwrites>>
       ELSE IF granted
       THEN /\ cnet' = cnet + 2
            /\ nwrites' = nwrites + 1
            /\ nrefresh' = Return("response")
       ELSE /\ cnet' = cnet + 1
            /\ nrefresh' = Throw(ErrGrant)
            /\ UNCHANGED nwrites
    /\ UNCHANGED <<npc, nbrowser, nlisten, nresult>>
    /\ UNCHANGED <<cpc, copts, creg, cman, cissuer, ckey, cuses, cresult, cdevice>>

\* authorizeDevice(key, onUserCode) (lines 403-419) with init() not
\* completed: the flow is given this.client undefined and reads
\* client.issuer (part_015:94)
ClientAuthorizeDeviceNoClient(keyArg) ==
    /\ cpc \in {"constructed", "init_failed"}
    /\ cdevice = NoResult
    /\ ckey' = Some(IF keyArg = Absent THEN cman[1].name ELSE keyArg[1])
    /\ cdevice' = Throw(ErrNoClient)
    /\ UNCHANGED <<cpc, copts, creg, cman, cissuer, cnet, caccess, cuses, cresult>>
    /\ UNCHANGED useVars

UseFrame == UNCHANGED <<lifeVars, authVars, encVars, urlVars, devVars, kvVars, svVars>>

NextUse ==
    \/ \E opts \in ClientOptions, reg \in Registries : Construct(opts, reg) /\ CfgFrame
    \/ ClientInit /\ CfgFrame
    \/ ClientAuthorize /\ UseFrame
    \/ \E e \in {ErrInvalidCallback, ErrBind, ErrTimeout} :
          ClientAuthorizeRejected(e) /\ UseFrame
    \/ \E exchanged \in BOOLEAN : ClientAuthorizeCode(exchanged) /\ UseFrame
    \/ \E granted \in BOOLEAN : ClientRequestRefresh(granted) /\ UseFrame
    \/ \E keyArg \in KeyArgs : ClientAuthorizeDeviceNoClient(keyArg) /\ UseFrame
    \/ \E keyArg \in KeyArgs : ClientAuthorizeDevice(keyArg) /\ CfgFrame

(***************************************************************************)
(* The specifications.                                                     *)
(***************************************************************************)
InitSpecLife == InitLife /\ AuthIdle /\ EncIdle /\ UrlIdle /\ DevIdle /\ CfgIdle /\ KvIdle /\ SvIdle /\ UseIdle

SpecLife == InitSpecLife /\ [][NextLife]_vars

SpecRace == InitSpecLife /\ [][NextRace]_vars

InitSpecAuth == InitAuth /\ EncIdle /\ UrlIdle /\ DevIdle /\ CfgIdle /\ KvIdle /\ SvIdle /\ UseIdle

SpecAuth == InitSpecAuth /\ [][NextAuth]_vars

SpecAuthLate == InitSpecAuth /\ [][NextAuthLate]_vars

InitSpecEnc == InitEnc /\ UrlIdle /\ DevIdle /\ CfgIdle /\ KvIdle /\ SvIdle /\ UseIdle

\* setTimeout (line 329): a timer that stays armed fires
SpecAuthLive ==
    /\ InitSpecAuth
    /\ [][NextAuth]_vars
    /\ \A i \in Invs : WF_vars(CallbackTimeout(i) /\ AuthFrame)

SpecEnc == InitSpecEnc /\ [][NextEnc]_vars

InitSpecUrl == InitUrl /\ DevIdle /\ CfgIdle /\ KvIdle /\ SvIdle /\ UseIdle

SpecUrl == InitSpecUrl /\ [][NextUrl]_vars

InitSpecDev == InitDev /\ CfgIdle /\ KvIdle /\ SvIdle /\ UseIdle

SpecDev == InitSpecDev /\ [][NextDev]_vars

InitSpecCfg == InitCfg /\ KvIdle /\ SvIdle /\ UseIdle

SpecCfg == InitSpecCfg /\ [][NextCfg]_vars

InitSpecKv == InitKv /\ SvIdle /\ UseIdle

SpecKv == InitSpecKv /\ [][NextKv]_vars

InitSpecSv == InitSv /\ UseIdle

SpecSv == InitSpecSv /\ [][NextSv]_vars

InitSpecUse == InitCfg /\ KvIdle /\ SvIdle /\ UseIdle

SpecUse == InitSpecUse /\ [][NextUse]_vars

(***************************************************************************)
(* Claims on the token lifecycle, checked under SpecLife.                  *)
(***************************************************************************)
IsRequest(p) == op[p] = "request" /\ calls[p] > 0
IsRefreshCall(p) == op[p] = "refreshIfNeeded" /\ calls[p] > 0
Done(p) == pc[p] = "idle" /\ calls[p] > 0
\* refresh grants sent after the first fetch of the running request()
RetryGrants(p) == { i \in DOMAIN grants[p] : grants[p][i].phase = 2 }

\* C2: one request() call sends at most two HTTP calls to the target url and
\* runs at most one refresh-and-retry cycle; when the retry is answered 401
\* the call is over and that response is what the caller gets.
C2_AtMostOneRetry ==
    \A p \in Procs : IsRequest(p) =>
        /\ Len(fetches[p]) <= 2
        /\ Cardinality(RetryGrants(p)) <= 1
        /\ (Len(fetches[p]) = 2 /\ fetches[p][2].status # Absent) =>
              /\ pc[p] = "idle"
              /\ result[p] = Return([status |-> fetches[p][2].status[1]])

C2_Witness ==
    /\ IsRequest(1) /\ Done(1)
    /\ Len(fetches[1]) = 2
    /\ fetches[1][1].status = Some(401)
    /\ fetches[1][2].status = Some(401)
    /\ Cardinality(RetryGrants(1)) = 1
    /\ result[1] = Return([status |-> 401])

\* C3: whenever the first HTTP call of request() returns 401 and a record is
\* stored under the key, exactly one refresh grant is sent for the record
\* re-read from the store, and the retry carries the refreshed credential.
C3_RefreshOn401 ==
    \A p \in Procs :
        (IsRequest(p) /\ phase[p] = 2 /\ pc[p] \in {"get_token", "fetch2"}
           /\ tRead[p] # Null) =>
            /\ Cardinality(RetryGrants(p)) = 1
            /\ writes[p] # <<>>
            /\ pc[p] = "fetch2" =>
                 fetches[p][2].auth = AuthHeader(writes[p][Len(writes[p])].rec)

\* C4: refreshIfNeeded neither sends the refresh grant nor writes the store
\* when the record it read is fresh (expiresAt present, expiresAt - now > 60),
\* has no refreshToken, or is missing; it then returns the record as read
\* (nothing when missing) and raises no error.
C4_NoRefreshStep(p) ==
    (/\ pc[p] = "rin_decide"
     /\ pc'[p] # "rin_decide"
     /\ \/ t[p] = Null
        \/ t[p].refreshToken = Absent
        \/ t[p].expiresAt # Absent /\ t[p].expiresAt[1] - now > 60)
    => /\ grants'[p] = grants[p]
       /\ writes'[p] = writes[p]
       /\ pc'[p] # "rin_grant"
       /\ store' = store
       /\ result'[p].kind # "throw" \/ (op[p] = "request" /\ t[p] = Null)
       /\ op[p] = "refreshIfNeeded" => result'[p] = Return(tRead[p])

C4_NoNeedlessRefresh == [][\A p \in Procs : C4_NoRefreshStep(p)]_vars

C4_Witness ==
    /\ IsRefreshCall(1) /\ Done(1)
    /\ tRead[1] # Null
    /\ tRead[1].refreshToken # Absent
    /\ tRead[1].expiresAt # Absent
    /\ tRead[1].expiresAt[1] - now = 61
    /\ result[1] = Return(tRead[1])
    /\ grants[1] = <<>> /\ writes[1] = <<>>

\* C5: for a record whose expiresAt is absent the refresh grant is never
\* sent, with or without a refreshToken.
C5_AbsentExpiryNeverRefreshed ==
    \A p \in Procs : pc[p] = "rin_grant" => t[p].expiresAt # Absent

\* C6: a refresh stores, under the key of the call, a new record whose
\* accessToken is the response's and whose refreshToken is the response's
\* when it has one and the previous record's otherwise; refreshIfNeeded
\* returns that record; the record that was read is not changed.
C6_RefreshBuildsNewRecord ==
    \A p \in Procs :
        /\ t[p] = tRead[p]
        /\ \A i \in DOMAIN writes[p] :
             LET w == writes[p][i] IN
               /\ w.key = key[p]
               /\ w.rec.accessToken = w.resp.access_token
               /\ w.rec.refreshToken =
                    (IF w.resp.refresh_token # Absent
                     THEN w.resp.refresh_token ELSE w.read.refreshToken)
        /\ (writes[p] # <<>> /\ others = 0) =>
              store[key[p]] = writes[p][Len(writes[p])].rec
        /\ (writes[p] # <<>> /\ IsRefreshCall(p) /\ Done(p)) =>
              result[p] = Return(writes[p][Len(writes[p])].rec)

C6_Witness ==
    /\ IsRefreshCall(1) /\ Done(1)
    /\ Len(writes[1]) = 1
    /\ writes[1][1].resp.refresh_token = Absent
    /\ writes[1][1].read.refreshToken = Some("rt0")
    /\ result[1] = Return(writes[1][1].rec)
    /\ store[key[1]] = writes[1][1].rec
    /\ store[key[1]].refreshToken = Some("rt0")

\* C26: request() with a malformed url fails with the invalid-url error and
\* has neither read the store nor sent a grant or an HTTP call, also when
\* no record is stored; with a well-formed url and no record under the key
\* it fails with the no-token error and sends no grant and no HTTP call
C26_RequestFailsFast ==
    \A p \in Procs :
        /\ (IsRequest(p) /\ ~ValidUrl(reqUrl[p])) =>
              /\ Done(p)
              /\ result[p] = Throw(ErrInvalidUrl)
              /\ reads[p] = 0
              /\ grants[p] = <<>>
              /\ writes[p] = <<>>
              /\ fetches[p] = <<>>
        /\ (IsRequest(p) /\ ValidUrl(reqUrl[p]) /\ phase[p] = 1 /\ tRead[p] = Null) =>
              /\ reads[p] = 1
              /\ grants[p] = <<>>
              /\ fetches[p] = <<>>
              /\ pc[p] = "rin_decide" \/ (Done(p) /\ result[p] = Throw(ErrNoToken))

C26_Witness ==
    /\ IsRequest(1)
    /\ ~ValidUrl(reqUrl[1])
    /\ store[key[1]] = Null
    /\ result[1] = Throw(ErrInvalidUrl)

\* C27: when getToken after a 401 finds no record under the key, request()
\* fails with the no-token error it also gives when no record existed before
\* the first call, and sends no retry
C27_RereadWithoutRecordIsNoToken ==
    [][\A p \in Procs :
          (IsRequest(p) /\ pc[p] = "get_token" /\ store[key[p]] = Null
              /\ pc'[p] # "get_token")
          => (result'[p] = Throw(ErrNoToken) /\ fetches'[p] = fetches[p])]_vars

\* C28: a caller that read a stale record with a refresh token sends the
\* grant with that token whatever the other callers are doing: a grant in
\* flight for the same key does not hold it back
C28_NoSingleFlight ==
    [][\A p \in Procs :
          (/\ pc[p] = "rin_decide"
           /\ pc'[p] # "rin_decide"
           /\ t[p] # Null
           /\ t[p].expiresAt \in {Absent, Some(0)} \/ t[p].expiresAt[1] - now <= 60
           /\ t[p].refreshToken \notin {Absent, Some("")})
          => /\ pc'[p] = "rin_grant"
             /\ grants'[p] = Append(grants[p], [rt |-> t[p].refreshToken[1],
                                                phase |-> phase[p]])]_vars

\* both callers have sent the grant with the same refresh token for the
\* same key while neither had finished, and both have written the store
C28_Witness ==
    /\ key[1] = key[2]
    /\ Len(grants[1]) = 1 /\ Len(grants[2]) = 1
    /\ grants[1][1].rt = grants[2][1].rt
    /\ Len(writes[1]) = 1 /\ Len(writes[2]) = 1
    /\ writes[1][1].read = writes[2][1].read

\* C31: each HTTP call request() sends carries the header made of the
\* tokenType of the record used for that attempt, or Bearer when that is
\* absent or empty, and of its accessToken; the record is the one
\* refreshIfNeeded returned for the first call and the one getToken read
\* for the retry
C31_AuthorizationHeader ==
    [][\A p \in Procs :
          Len(fetches'[p]) = Len(fetches[p]) + 1 =>
            LET rec == IF pc[p] = "get_token" THEN store[key[p]]
                       ELSE IF pc[p] = "rin_grant" THEN store'[key[p]]
                       ELSE t[p]
                sent == fetches'[p][Len(fetches'[p])]
            IN  sent.auth = <<IF rec.tokenType \in {Absent, Some("")}
                              THEN "Bearer" ELSE rec.tokenType[1],
                              rec.accessToken>>]_vars

C31_Witness ==
    /\ IsRequest(1)
    /\ pc[1] = "fetch2"
    /\ store[key[1]].tokenType = Some("")
    /\ fetches[1][1].auth = <<"Bearer", Some("at0")>>
    /\ fetches[1][2].auth = <<"Bearer", Some("at7")>>

\* C33: whenever refreshIfNeeded is entered, by a public call or by
\* request() before the first call and after a 401, it decides on the record
\* the store holds at that moment, and the retry is sent for the record the
\* store holds when getToken reads it: no record of an earlier read is used
C33_NoCachedRecord ==
    [][\A p \in Procs :
          /\ (pc[p] # "rin_decide" /\ pc'[p] = "rin_decide") =>
                /\ t'[p] = store[key'[p]]
                /\ reads'[p] = IF pc[p] = "idle" THEN 1 ELSE reads[p] + 1
          /\ (pc[p] = "get_token" /\ pc'[p] = "fetch2") =>
                /\ reads'[p] = reads[p] + 1
                /\ fetches'[p][2].auth[2] = store[key[p]].accessToken]_vars

\* the record another holder wrote after the first read is the one the
\* retry is sent for
C33_Witness ==
    /\ IsRequest(1)
    /\ pc[1] = "fetch2"
    /\ others = 1
    /\ tRead[1].accessToken = Some("at0")
    /\ store[key[1]].accessToken = Some("at9")
    /\ fetches[1][2].auth[2] = Some("at9")

\* C35: a refreshIfNeeded that reads the record another refreshIfNeeded has
\* just stored after a successful grant, at the same time, returns that
\* record and sends no grant
C35_RefreshIdempotent ==
    [][\A p \in Procs : \A q \in Procs \ {p} :
          (/\ IsRefreshCall(p) /\ pc[p] = "rin_decide" /\ pc'[p] # "rin_decide"
           /\ IsRefreshCall(q) /\ Done(q)
           /\ Len(writes[q]) = 1
           /\ writes[q][1].key = key[p]
           /\ writes[q][1].at = now
           /\ t[p] = writes[q][1].rec)
          => /\ pc'[p] = "idle"
             /\ result'[p] = Return(writes[q][1].rec)
             /\ grants'[p] = <<>>]_vars

\* C36: a caller that waits for the refresh grant while the record it read
\* has been deleted from the store does not write a record under the key
C36_DeletedKeyStaysAbsent ==
    [][\A p \in Procs :
          (pc[p] = "rin_grant" /\ pc'[p] # "rin_grant" /\ store[key[p]] = Null)
          => store'[key[p]] = Null]_vars

(***************************************************************************)
(* Claims on the authorization code flow, checked under SpecAuth.          *)
(***************************************************************************)
\* the wait of authorize() i was settled by a request on the redirect path
\* whose state is missing or is not the state issued for i
SettledByMismatch(i) ==
    /\ settledBy[i] # Absent
    /\ settledBy[i][1].path = RedirectPath
    /\ \/ settledBy[i][1].state = Absent
       \/ settledBy[i][1].state[1] # issued[i]

HasErrorParam(req) == req.error # Absent /\ req.error[1] # ""

C32_OtherPathIgnored ==
    [][\A i \in Invs :
          (replies'[i] = Append(replies[i], 404)) =>
             /\ apc[i] = "awaiting" /\ apc'[i] = "awaiting"
             /\ portOwner' = portOwner
             /\ timerArmed[i] /\ timerArmed'[i]
             /\ issued'[i] = issued[i]
             /\ settledBy'[i] = settledBy[i]
             /\ exchanges'[i] = exchanges[i]
             /\ awrites'[i] = awrites[i]
             /\ aresult'[i] = aresult[i]
             /\ store' = store]_vars

\* a valid callback that follows the 404 still completes the flow
C32_Witness ==
    /\ replies[1] = <<404, 200>>
    /\ apc[1] = "complete"
    /\ aresult[1].kind = "return"

(***************************************************************************)
(* Claims on the encrypted store, checked under SpecEnc.                   *)
(***************************************************************************)
\* the last step was get() and it found a row under its key
GotRow == last.op = "get" /\ db[last.key] # NoRow

\* the row under the key of the last step is as set() of a store holding the
\* present encryption key left it
WrittenWithThisKey ==
    /\ lastPut[last.key] # Absent
    /\ lastPut[last.key][1].keyId = encKey.id
    /\ encKey.bytes = KeyBytes

\* C7: get(k) after set(k, r) on an encrypted store with the same valid
\* 32-byte encryption key returns a record equal to r: every present field
\* equal, every absent field absent.
C7_RoundTrip ==
    (GotRow /\ WrittenWithThisKey) => last.out = Return(lastPut[last.key][1].rec)

C7_Witness ==
    /\ GotRow
    /\ WrittenWithThisKey
    /\ lastPut[last.key][1].rec.expiresAt # Absent
    /\ lastPut[last.key][1].rec.scope = Absent
    /\ last.out = Return(lastPut[last.key][1].rec)
    /\ last.tried

\* C8: when the row under a key is tagged encrypted and is not what the
\* caller's key encrypted (written under another key, damaged, cut or
\* misshapen), get(key) fails with the decryption error, returning neither
\* null nor a record, and leaves the row as it was.
C8_UndecryptableFails ==
    [][(/\ last'.op = "get"
        /\ db'[last'.key] # NoRow
        /\ IsTagged(SqliteGet(db', last'.key))
        /\ \/ lastPut'[last'.key] = Absent
           \/ lastPut'[last'.key][1].keyId # encKey'.id)
       => (last'.out = Throw(ErrDecrypt(last'.key)) /\ db' = db)]_vars

\* C9: a store is constructed only with a key of exactly 32 bytes, so that
\* no set() or get() fails later because of the length of the key.
C9_KeyValidatedAtConstruction ==
    /\ encKey # NoStore => encKey.bytes = KeyBytes
    /\ last.out # Throw(ErrKeyLength)

\* the row under the key of the last step was written without encryption
\* and carries no encrypted tag
UntaggedLegacyRow ==
    /\ lastPut[last.key] # Absent
    /\ lastPut[last.key][1].keyId = Plain
    /\ lastPut[last.key][1].rec.tokenType # Some(EncryptedTag)

\* C10: when the record found under the key does not carry the encrypted
\* tag, get() returns that record unchanged and does not call decrypt(),
\* whatever the encryption key of the store is.
C10_UntaggedPassthrough ==
    (GotRow /\ UntaggedLegacyRow)
        => (last.out = Return(lastPut[last.key][1].rec) /\ ~last.tried)

C10_Witness ==
    /\ GotRow
    /\ UntaggedLegacyRow
    /\ lastPut[last.key][1].rec.tokenType = Some("Bearer")
    /\ encKey.bytes # KeyBytes
    /\ last.out = Return(lastPut[last.key][1].rec)


\* C34: a row that set() of the encrypted store left holds two members
\* only: accessToken, made of the sixteen bytes of the IV and of the
\* ciphertext of the JSON text of the record, and the tokenType that marks
\* it encrypted; no member of the record is there in the clear
C34_OnlyCiphertextAtRest ==
    \A k \in Keys :
        (lastPut[k] # Absent /\ lastPut[k][1].keyId # Plain) =>
            /\ db[k] # NoRow
            /\ Len(db[k].pairs) = 2
            /\ db[k].pairs[2] = <<"tokenType", EncryptedTag>>
            /\ db[k].pairs[1][1] = "accessToken"
            /\ LET parts == db[k].pairs[1][2] IN
                 /\ Len(parts) = 2
                 /\ parts[1].bytes = IvBytes
                 /\ parts[2].ct.text = JsonStringify(lastPut[k][1].rec)
                 /\ parts[2].ct.key = lastPut[k][1].keyId

C34_Witness ==
    /\ last.op = "set"
    /\ lastPut[last.key] # Absent
    /\ lastPut[last.key][1].keyId # Plain
    /\ lastPut[last.key][1].rec.refreshToken = Some("rt0")
    /\ lastPut[last.key][1].rec.scope = Some("email")
    /\ Len(db[last.key].pairs) = 2

(***************************************************************************)
(* Claims on the authorization URL, checked under SpecUrl.                 *)
(***************************************************************************)
\* C11: for any configuration, extra authorize parameters of the manifest
\* included, the authorization URL carries response_type=code,
\* code_challenge_method=S256, the state issued for the invocation, and a
\* code_challenge that is the base64url SHA-256 of the code_verifier the
\* invocation hands to the token exchange.
C11_UrlCarriesPkce ==
    /\ upc \in {"waiting", "exchanging"} =>
          /\ SearchGet(uurl, "response_type") = Some(Lit("code"))
          /\ SearchGet(uurl, "code_challenge_method") = Some(Lit("S256"))
          /\ SearchGet(uurl, "state") = Some(Lit(ugen.state))
    /\ upc = "exchanging" =>
          SearchGet(uurl, "code_challenge") = Some(CodeChallenge(uparams[1].code_verifier))


(***************************************************************************)
(* Further claims on the authorization code flow, checked under SpecAuth.  *)
(***************************************************************************)
Settled(i) == apc[i] \in {"complete", "failed"}

\* C12: on every exit path of the callback wait (valid callback, provider
\* error, missing code or state mismatch, timeout, bind failure) the
\* listener is closed and the timer is not armed once authorize() has
\* settled, so that a later authorize() can bind the port.
C12_ListenerReleased ==
    /\ \A i \in Invs : Settled(i) => (~timerArmed[i] /\ portOwner # i)
    /\ (\A i \in Invs : apc[i] \in {"idle", "binding", "exchanging", "complete", "failed"})
          => portOwner = 0

C12_Witness ==
    /\ aresult[1] = Throw(ErrTimeout)
    /\ ~timerArmed[1]
    /\ apc[2] = "awaiting"
    /\ portOwner = 2


\* C13: when no request that ends the wait (a valid, error or invalid
\* callback on the redirect path) arrives, authorize() eventually fails
\* with the timeout error, whatever other requests the listener answered
\* with 404 meanwhile, and it writes nothing to the store.
C13_TimeoutEventually ==
    /\ \A i \in Invs :
          (apc[i] = "awaiting") ~> (settledBy[i] # Absent \/ aresult[i] = Throw(ErrTimeout))
    /\ [](\A i \in Invs : aresult[i] = Throw(ErrTimeout) =>
            /\ apc[i] = "failed"
            /\ settledBy[i] = Absent
            /\ exchanges[i] = 0
            /\ awrites[i] = <<>>
            /\ \A n \in DOMAIN replies[i] : replies[i][n] = 404)

C13_Witness ==
    /\ aresult[1] = Throw(ErrTimeout)
    /\ Len(replies[1]) = MaxRequests
    /\ store = [k \in Keys |-> Null]


\* C14: when two authorize() overlap on the same redirect host and port, the
\* later one fails with the bind error and never receives a callback; the
\* earlier one keeps its listener and its timer, and only its own callback
\* or its own timeout decides its outcome.
C14_SecondBindFails ==
    /\ [][\A i \in Invs, j \in Invs :
            /\ (i # j /\ portOwner = i /\ apc[j] = "binding" /\ apc'[j] # "binding")
                  => /\ apc'[j] = "failed"
                     /\ aresult'[j] = Throw(ErrBind)
                     /\ replies'[j] = <<>>
                     /\ portOwner' = i
                     /\ timerArmed'[i] = timerArmed[i]
                     /\ apc'[i] = apc[i]
                     /\ aresult'[i] = aresult[i]
            /\ (i # j /\ apc[i] = "awaiting" /\ apc'[i] # "awaiting")
                  => /\ settledBy'[i] # Absent \/ aresult'[i] = Throw(ErrTimeout)
                     /\ apc'[j] = apc[j]
                     /\ replies'[j] = replies[j]]_vars
    /\ [](\A j \in Invs : aresult[j] = Throw(ErrBind) =>
            /\ replies[j] = <<>>
            /\ settledBy[j] = Absent
            /\ exchanges[j] = 0
            /\ awrites[j] = <<>>)
    /\ [](\A i \in Invs : apc[i] = "awaiting" => (portOwner = i /\ timerArmed[i]))

C14_Witness ==
    /\ apc[1] = "awaiting"
    /\ portOwner = 1
    /\ timerArmed[1]
    /\ aresult[2] = Throw(ErrBind)
    /\ replies[1] = <<404>>


\* C15: a request on the redirect path that carries an error query
\* parameter is answered 400, closes the listener and fails authorize() with
\* the provider's error, carrying its error_description; this is decided
\* before code and state are examined, and neither a token exchange nor a
\* store write follows.
C15_ErrorParamRejected ==
    \A i \in Invs :
        (settledBy[i] # Absent /\ settledBy[i][1].error # Absent) =>
            /\ apc[i] = "failed"
            /\ replies[i][Len(replies[i])] = 400
            /\ portOwner # i
            /\ ~timerArmed[i]
            /\ aresult[i].kind = "throw"
            /\ aresult[i].error[1] = "OAuth error"
            /\ settledBy[i][1].error_description # Absent
                  => aresult[i].error[2] = settledBy[i][1].error_description[1]
            /\ exchanges[i] = 0
            /\ awrites[i] = <<>>

\* the wait of authorize() i was settled by a callback without error
\* parameter whose state is the issued one and whose code is missing
SettledByMissingCode(i) ==
    /\ settledBy[i] # Absent
    /\ settledBy[i][1].error = Absent
    /\ settledBy[i][1].state = Some(issued[i])
    /\ ~TruthyStr(settledBy[i][1].code)

\* C16: the two failures of the callback validation are told apart: a
\* callback whose state is missing or differs from the issued state fails
\* the flow with one error (StateMismatch), a callback with the right state
\* and no code with another (InvalidCallback).
C16_FailureKindsDistinct ==
    \A i \in Invs, j \in Invs :
        (/\ SettledByMismatch(i)
         /\ settledBy[i][1].error = Absent
         /\ SettledByMissingCode(j))
            => (/\ apc[i] = "failed"
                /\ apc[j] = "failed"
                /\ aresult[i] # aresult[j])

Pending == Some("authorization_pending")
SlowDown == Some("slow_down")

\* the answer ends neither in a token nor in another round of the loop
IsTerminalAnswer(a) == a \notin {Pending, SlowDown, Some("ok")}

\* C18: a poll answered with access_denied, the first poll included, ends
\* the flow at once with the denial error; expired_token and every other
\* error that is neither authorization_pending nor slow_down end it as
\* well: no token endpoint request follows such an answer.
C18_TerminalErrorStops ==
    \A n \in DOMAIN dpolls :
        IsTerminalAnswer(dpolls[n]) =>
            /\ n = Len(dpolls)
            /\ Len(dwaits) = n
            /\ dpc = "failed"
            /\ dresult.kind = "throw"
            /\ dpolls[n] = Some("access_denied") => dresult = Throw(ErrDenied)
            /\ dpolls[n] = Some("expired_token") => dresult = Throw(ErrExpired)
            /\ dwrites = <<>>

C18_Witness ==
    /\ dpolls = <<Some("access_denied")>>
    /\ dresult = Throw(ErrDenied)
    /\ Len(dwaits) = 1

C20_SlowDownLengthensWaits ==
    /\ \A n \in DOMAIN dpolls, m \in DOMAIN dwaits :
          (dpolls[n] = SlowDown /\ m > n) => dwaits[m] > dwaits[n]
    /\ \A m \in DOMAIN dwaits : m > 1 => dwaits[m] >= dwaits[m - 1]

\* C21: token endpoint polls are sent only while the time since the device
\* code was obtained is below expires_in, and the flow ends with the timeout
\* error only once expires_in has passed
C21_PollingBoundedByExpiresIn ==
    /\ dpc = "granting" => dclock - dstart < dauth[1].expiresIn * 1000
    /\ dresult = Throw(ErrDeviceTimeout) => dclock - dstart >= dauth[1].expiresIn * 1000

\* C22: once the device code is obtained, onUserCode has been called exactly
\* once, with the user code and the verification URI of the response and
\* before any poll; it is not called while no device code is obtained
C22_UserCodeShownOnce ==
    /\ dauth = Absent => dshown = <<>>
    /\ dauth # Absent /\ dcfg.onUserCode =>
         dshown = << [userCode |-> dauth[1].userCode,
                      verificationUri |-> dauth[1].verificationUri,
                      polls |-> 0] >>

C22_Witness ==
    /\ dcfg.onUserCode
    /\ Len(dshown) = 1
    /\ Len(dpolls) = 2

\* C23: without device authorization endpoint the flow fails with the
\* unsupported-flow error; no request was sent, onUserCode was not called
\* and nothing was stored
C23_UnsupportedBeforeNetwork ==
    (dpc # "idle" /\ ~dcfg.endpoint) =>
        /\ dpc = "failed"
        /\ dresult = Throw(ErrUnsupported)
        /\ dnet = 0
        /\ dshown = <<>>
        /\ dwrites = <<>>
        /\ \A k \in DeviceKeys : dstore[k] = Null

C23_Witness == dresult = Throw(ErrUnsupported) /\ dcfg.onUserCode

C24_ClientDeviceFlowSupported ==
    (cpc = "ready" /\ cman[1].deviceCodeSupported = Some(TRUE)) =>
        cdevice # Throw(ErrUnsupported)

\* the provider is a name that the registry given does not hold, or no
\* registry is given
UnresolvedProvider ==
    /\ copts.provider.kind = "string"
    /\ creg = Absent \/ copts.provider.name \notin DOMAIN creg[1]

BlankClientId ==
    \/ copts.clientId = Absent
    \/ \A i \in 1..Len(copts.clientId[1]) : copts.clientId[1][i] \in WhiteSpace

UnparseableRedirectUri ==
    copts.redirectUri # Some(<<"http:", "//localhost:8787", "/callback">>)

MissingEndpoint ==
    cman[1].authorizationEndpoint = Absent \/ cman[1].tokenEndpoint = Absent

C30_StoresBehaveAsMap ==
    /\ klast.op = "get" =>
          (klast.mem = kmap[klast.key] /\ klast.sql = kmap[klast.key])
    /\ klast.op = "list" =>
          LET held == { k \in StoreKeys :
                          /\ kmap[k] # Null
                          /\ Len(klast.prefix) <= Len(k)
                          /\ \A i \in 1..Len(klast.prefix) : k[i] = klast.prefix[i] }
          IN  klast.mem = held /\ klast.sql = held
    /\ klast.op = "delete" =>
          \A k \in StoreKeys \ {klast.key} : kmap[k] = klast.before[k]
    /\ \A k \in StoreKeys :
          /\ kmem[k] = kmap[k]
          /\ SqliteGet(ksql, k) = kmap[k]

(***************************************************************************)
(* Claims on refreshIfNeeded and the token endpoint, checked under SpecSv. *)
(***************************************************************************)
\* C37: once both callers have stored the record of their refresh, the
\* store holds the refresh token and the access token that the token
\* endpoint issued last
C37_LastIssuedIsStored ==
    (\A p \in Procs : vpc[p] = "done") =>
        /\ vstore.refreshToken = Some(IssuedRefreshTokens[vissued])
        /\ vstore.accessToken = Some(IssuedAccessTokens[vissued])

(***************************************************************************)
(* Claims on the calls that use this.client, checked under SpecUse.        *)
(***************************************************************************)
\* C38: authorize(), authorizeDevice() and a request() that needs a
\* refresh, on a client whose init() has not completed successfully, fail
\* before any side effect: no browser is started, no callback listener is
\* bound, no network call is made and nothing is written to the store.
C38_FailsBeforeSideEffects ==
    cpc \in {"constructed", "init_failed"} =>
        /\ nbrowser = 0
        /\ nlisten = 0
        /\ cnet = 0
        /\ nwrites = 0

(***************************************************************************)
(* Claims on the callback listener, checked under SpecAuthLate.            *)
(***************************************************************************)
\* C39: the callback continuation is one-shot: an authorize() attempts at
\* most one token exchange, and once its wait has settled (success, failure
\* or timeout) no later request that reaches the handler is answered 200
\* or changes the outcome.
C39_OneShot ==
    [][\A i \in Invs :
          /\ exchanges'[i] <= 1
          /\ (apc[i] \in {"exchanging", "complete", "failed"}
              /\ replies'[i] # replies[i]) =>
                 /\ replies'[i][Len(replies'[i])] # 200
                 /\ aresult'[i] = aresult[i]
                 /\ apc'[i] = apc[i]]_vars

(***************************************************************************)
(* Claims on the timeout of the device flow, checked under SpecDev.        *)
(***************************************************************************)
\* C40: the device flow terminates without a pending timer, and once the
\* timeout the caller gave has elapsed no further poll is sent to the token
\* endpoint: every poll is sent at most timeout milliseconds after the
\* start of pollForToken.
C40_NoPollAfterTimeout ==
    dpc = "granting" => dclock - dstart <= DevTimeout

=============================================================================
